---------------------------- MODULE Spec2Model ----------------------------
(***************************************************************************)
(* ChatMMAPicks: the chat backend (utils/chat.py), the store accessors     *)
(* (utils/db.py) and the pages that call them.                             *)
(*                                                                         *)
(* Text is a sequence of one-character strings, so that lower-casing,      *)
(* splitting, substring tests and the similarity score are computed the    *)
(* way the code computes them.                                             *)
(***************************************************************************)
EXTENDS Integers, Sequences, FiniteSets, TLC

(***************************************************************************)
(* Text helpers (Python str primitives used by utils/chat.py)              *)
(***************************************************************************)

\* The characters that occur in the modelled texts, in code-point order.
Alphabet ==
  << " ", "'", "-", ".", "/",
     "0", "1", "2", "3", "4", "5", "6", "7", "8", "9", "?",
     "A", "B", "C", "D", "E", "F", "G", "H", "I", "J", "K", "L", "M",
     "N", "O", "P", "Q", "R", "S", "T", "U", "V", "W", "X", "Y", "Z", "_",
     "a", "b", "c", "d", "e", "f", "g", "h", "i", "j", "k", "l", "m",
     "n", "o", "p", "q", "r", "s", "t", "u", "v", "w", "x", "y", "z" >>

Ord(c) == CHOOSE i \in 1..Len(Alphabet) : Alphabet[i] = c

UpperChars == { Alphabet[i] : i \in 17..42 }

\* str.lower() on one character: "A".."Z" map to "a".."z" (27 places on).
LowerChar(c) == IF c \in UpperChars THEN Alphabet[Ord(c) + 27] ELSE c

\* str.lower()
Lower(s) == [i \in 1..Len(s) |-> LowerChar(s[i])]

Max2(a, b) == IF a >= b THEN a ELSE b

Min2(a, b) == IF a <= b THEN a ELSE b

\* str.split(): the whitespace-separated words of s, in order.
RECURSIVE SplitFrom(_, _, _)
SplitFrom(s, i, cur) ==
  IF i > Len(s)
    THEN (IF cur = << >> THEN << >> ELSE << cur >>)
    ELSE IF s[i] = " "
           THEN (IF cur = << >> THEN << >> ELSE << cur >>) \o SplitFrom(s, i + 1, << >>)
           ELSE SplitFrom(s, i + 1, Append(cur, s[i]))

Split(s) == SplitFrom(s, 1, << >>)

\* Python's ordering of str: lexicographic by code point.
RECURSIVE LexLess(_, _)
LexLess(s, t) ==
  IF t = << >> THEN FALSE
  ELSE IF s = << >> THEN TRUE
  ELSE IF s[1] # t[1] THEN Ord(s[1]) < Ord(t[1])
  ELSE LexLess(Tail(s), Tail(t))

\* sorted(S) for a set of words
RECURSIVE SortedWords(_)
SortedWords(S) ==
  IF S = {} THEN << >>
  ELSE LET m == CHOOSE w \in S : \A v \in S \ {w} : LexLess(w, v)
       IN  << m >> \o SortedWords(S \ {m})

\* " ".join(words)
RECURSIVE Join(_)
Join(ws) ==
  IF ws = << >> THEN << >>
  ELSE IF Len(ws) = 1 THEN ws[1]
  ELSE ws[1] \o << " " >> \o Join(Tail(ws))

(***************************************************************************)
(* rapidfuzz.fuzz.token_set_ratio, as called by _classify_picks.           *)
(* A score is the rational num/den in [0,100].                             *)
(***************************************************************************)

\* One row of the longest-common-subsequence table for a[i] against b.
RECURSIVE LcsRow(_, _, _, _, _)
LcsRow(ai, b, prev, j, cur) ==
  IF j > Len(b) THEN cur
  ELSE LET v == IF ai = b[j] THEN prev[j] + 1
                ELSE Max2(prev[j + 1], cur[j])
           next == Append(cur, v)
       IN  IF Len(next) = j + 1 THEN LcsRow(ai, b, prev, j + 1, next) ELSE next

RECURSIVE LcsRows(_, _, _, _)
LcsRows(a, b, i, prev) ==
  IF i > Len(a) THEN prev[Len(b) + 1]
  ELSE LET row == LcsRow(a[i], b, prev, 1, << 0 >>)
       IN  IF Len(row) = Len(b) + 1 THEN LcsRows(a, b, i + 1, row) ELSE 0

\* length of the longest common subsequence of a and b
LcsLen(a, b) == LcsRows(a, b, 1, [j \in 1..(Len(b) + 1) |-> 0])

\* Indel distance: insertions + deletions turning a into b
IndelDistance(a, b) == Len(a) + Len(b) - 2 * LcsLen(a, b)

\* norm_distance: 100 - 100 * dist / lensum, kept exact as a fraction
NormDistance(dist, lensum) ==
  IF lensum > 0 THEN [num |-> 100 * (lensum - dist), den |-> lensum]
  ELSE [num |-> 100, den |-> 1]

ScoreGeq(x, y) == x.num * y.den >= y.num * x.den

ScoreMax(x, y) == IF ScoreGeq(x, y) THEN x ELSE y

ScoreOf(n) == [num |-> n, den |-> 1]

token_set_ratio(s1, s2) ==
  IF s1 = << >> \/ s2 = << >> THEN ScoreOf(0)
  ELSE
    LET tokens_a == { Split(s1)[i] : i \in 1..Len(Split(s1)) }
        tokens_b == { Split(s2)[i] : i \in 1..Len(Split(s2)) }
        intersect == tokens_a \cap tokens_b
        diff_ab == tokens_a \ tokens_b
        diff_ba == tokens_b \ tokens_a
        diff_ab_joined == Join(SortedWords(diff_ab))
        diff_ba_joined == Join(SortedWords(diff_ba))
        ab_len == Len(diff_ab_joined)
        ba_len == Len(diff_ba_joined)
        sect_len == Len(Join(SortedWords(intersect)))
        sep == IF sect_len > 0 THEN 1 ELSE 0
        sect_ab_len == sect_len + sep + ab_len
        sect_ba_len == sect_len + sep + ba_len
        base_ratio == NormDistance(IndelDistance(diff_ab_joined, diff_ba_joined),
                               sect_ab_len + sect_ba_len)
        sect_ab_ratio == NormDistance(sep + ab_len, sect_len + sect_ab_len)
        sect_ba_ratio == NormDistance(sep + ba_len, sect_len + sect_ba_len)
    IN  IF tokens_a = {} \/ tokens_b = {} THEN ScoreOf(0)
        ELSE IF intersect # {} /\ (diff_ab = {} \/ diff_ba = {}) THEN ScoreOf(100)
        ELSE IF sect_len = 0 THEN base_ratio
        ELSE ScoreMax(base_ratio, ScoreMax(sect_ab_ratio, sect_ba_ratio))

(***************************************************************************)
(* The texts of the modelled store and requests                            *)
(***************************************************************************)

JonJones == << "J", "o", "n", " ", "J", "o", "n", "e", "s" >>

TomAspinall == << "T", "o", "m", " ", "A", "s", "p", "i", "n", "a", "l", "l" >>

AndersonSilva == << "A", "n", "d", "e", "r", "s", "o", "n", " ", "S", "i", "l", "v", "a" >>

ThiagoSilva == << "T", "h", "i", "a", "g", "o", " ", "S", "i", "l", "v", "a" >>

MaxHolloway == << "M", "a", "x", " ", "H", "o", "l", "l", "o", "w", "a", "y" >>

IliaTopuria == << "I", "l", "i", "a", " ", "T", "o", "p", "u", "r", "i", "a" >>

PickJones == << "J", "o", "n", "e", "s" >>

PickJonesUpper == << "J", "O", "N", "E", "S" >>

PickJonas == << "J", "o", "n", "a", "s" >>

PickSpin == << "S", "p", "i", "n" >>

PickAspinal == << "A", "s", "p", "i", "n", "a", "l" >>

PickAspinall == << "A", "s", "p", "i", "n", "a", "l", "l" >>

PickSilva == << "S", "i", "l", "v", "a" >>

PickTSilva == << "T", " ", "S", "i", "l", "v", "a" >>

PickXyz == << "X", "Y", "Z" >>

PickHolloway == << "H", "o", "l", "l", "o", "w", "a", "y" >>

PickTopuria == << "T", "o", "p", "u", "r", "i", "a" >>

Ufc309 == << "U", "F", "C", " ", "3", "0", "9" >>

Ufc310 == << "U", "F", "C", " ", "3", "1", "0" >>

HintUfc310Lower == << "u", "f", "c", " ", "3", "1", "0" >>

HintUfc3 == << "U", "F", "C", " ", "3" >>

HintUfc999 == << "U", "F", "C", " ", "9", "9", "9" >>

\* picked_fighter absent (None, read as '')
PickNone == << >>

\* every fighter name of the modelled fights
FighterTexts ==
  { JonJones, TomAspinall, AndersonSilva, ThiagoSilva, MaxHolloway, IliaTopuria }

\* every picked_fighter text of the modelled picks
PickedUniverse ==
  { PickJones, PickJonesUpper, PickJonas, PickSpin, PickAspinal, PickAspinall,
    PickSilva, PickTSilva, PickXyz, PickHolloway, PickTopuria, PickNone }
  \cup FighterTexts

\* fuzz.token_set_ratio(picked.lower(), fighter.lower()) for every pair of
\* modelled texts, computed once
ScoreTable ==
  [picked \in PickedUniverse |->
     [fighter \in FighterTexts |-> token_set_ratio(Lower(picked), Lower(fighter))]]

(***************************************************************************)
(* Python collection helpers                                               *)
(***************************************************************************)

\* the elements of seq for which keep[i] holds, in order
RECURSIVE FilterIdx(_, _, _)
FilterIdx(seq, keep, i) ==
  IF i > Len(seq) THEN << >>
  ELSE (IF keep[i] THEN << seq[i] >> ELSE << >>) \o FilterIdx(seq, keep, i + 1)

\* seq[:n]
Take(seq, n) == SubSeq(seq, 1, Min2(n, Len(seq)))

Reverse(seq) == [i \in 1..Len(seq) |-> seq[Len(seq) + 1 - i]]

Range(seq) == { seq[i] : i \in 1..Len(seq) }

\* sum(lists, [])
RECURSIVE Flatten(_)
Flatten(seqs) == IF seqs = << >> THEN << >> ELSE seqs[1] \o Flatten(Tail(seqs))

\* a ratio x / y of two counts, kept exact: num / den
Ratio(n, d) == [num |-> n, den |-> d]

RatioLess(x, y) == x.num * y.den < y.num * x.den

\* how many elements come before seq[i] once seq is sorted by keys, descending
\* and stable: those of a greater key, and those of an equal key before it
RankDesc(keys, i) ==
  Cardinality({ j \in 1..Len(keys) : RatioLess(keys[i], keys[j]) })
  + Cardinality({ j \in 1..(i - 1) :
                    ~RatioLess(keys[i], keys[j]) /\ ~RatioLess(keys[j], keys[i]) })

\* list.sort(key=..., reverse=True): descending, and stable (elements with
\* equal keys keep their original relative order). keys[i] is the key of
\* seq[i], as a ratio.
SortDesc(seq, keys) ==
  [r \in 1..Len(seq) |-> seq[CHOOSE i \in 1..Len(seq) : RankDesc(keys, i) = r - 1]]

\* the distinct items, in first-encountered order (dict insertion order)
FirstSeen(items) ==
  FilterIdx(items,
            [i \in 1..Len(items) |-> \A j \in 1..(i - 1) : items[j] # items[i]], 1)

CountOf(items, k) == Cardinality({ i \in 1..Len(items) : items[i] = k })

CounterOfKeys(items, keys) ==
  [k \in 1..Len(keys) |-> [key |-> keys[k], count |-> CountOf(items, keys[k])]]

\* collections.Counter(items): one [key, count] per distinct item, in
\* first-encountered order.
Counter(items) == CounterOfKeys(items, FirstSeen(items))

CountKeys(counter) == [i \in 1..Len(counter) |-> Ratio(counter[i].count, 1)]

\* A variant of most_common below: the first n items as encountered, unsorted.
most_commonUnsorted(counter, n) == Take(counter, n)

\* Counter.most_common(n): sorted(items, key=count, reverse=True)[:n]
most_common(counter, n) == Take(SortDesc(counter, CountKeys(counter)), n)

(***************************************************************************)
(* The store (Supabase tables) and the query result                        *)
(***************************************************************************)

VARIABLES
  events,         \* table events: rows [event_id, name, date]
  fights,         \* table fights: rows [fight_id, event_id, fighter_a, fighter_b]
  analyst_picks,  \* table analyst_picks, in the order the store returns rows
  pick_tags,      \* table pick_tags: rows [pick_id, tag]
  hash_seed,      \* the process's string-hash seed (fixes set iteration order)
  result,         \* what the last call returned to its caller
  fighter_aliases, \* table fighter_aliases: rows [canonical_name, alias]
  alias_cache,    \* st.cache_data entry of get_fighter_aliases
  session_state   \* st.session_state of the browser session

\* the state outside the picks store: alias table, alias cache, page session
pages == << fighter_aliases, alias_cache, session_state >>

vars == << events, fights, analyst_picks, pick_tags, hash_seed, result, pages >>

\* an empty cache entry of st.cache_data
NoCache == [cached |-> FALSE]

\* a session in which no page has run yet
NoSession == [page |-> "none"]

\* no alias saved, nothing cached, no page opened
PagesIdle ==
  /\ fighter_aliases = << >>
  /\ alias_cache = NoCache
  /\ session_state = NoSession

\* SQL NULL / Python None for the string-valued columns
NULL == "NULL"

\* Python truthiness of an optional string column
Truthy(v) == v # NULL /\ v # ""

\* a function returned None
NoneRet == [none |-> TRUE]

NoResult == [op |-> "none"]

\* db.py save_analyst_pick: the table after the insert; pick_id is generated
InsertPick(table, row) ==
  Append(table, [pick_id |-> Len(table) + 1,
                 fight_id |-> row.fight_id,
                 analyst_name |-> row.analyst_name,
                 picked_fighter |-> row.picked_fighter,
                 method_prediction |-> row.method_prediction,
                 reasoning_notes |-> row.reasoning_notes])

\* db.py save_pick_tags: the table after inserting the non-empty tags of a pick
InsertTags(table, pick_id, tags) ==
  LET keep == [i \in 1..Len(tags) |-> tags[i] # ""]
      kept == FilterIdx(tags, keep, 1)
  IN  table \o [i \in 1..Len(kept) |-> [pick_id |-> pick_id, tag |-> kept[i]]]

(***************************************************************************)
(* QueryOptimizer                                                          *)
(***************************************************************************)

\* Python's "needle in hay"
Contains(hay, needle) ==
  \E i \in 0..(Len(hay) - Len(needle)) :
     \A j \in 1..Len(needle) : hay[i + j] = needle[j]

\* SQL LIKE '%pattern%'; the wildcard _ of the pattern is any one character
LikeContains(hay, pattern) ==
  \E i \in 0..(Len(hay) - Len(pattern)) :
     \A j \in 1..Len(pattern) : pattern[j] = "_" \/ hay[i + j] = pattern[j]

\* .ilike(column, f"%{pattern}%")
ILikeContains(value, pattern) == LikeContains(Lower(value), Lower(pattern))

\* the date column of an event that was saved without a date (NULL)
NoDate == 0

\* .order("date", desc=True): ORDER BY date DESC of the store puts the rows
\* without a date first, then the dated rows from the newest to the oldest
DateKeys(rows) ==
  [i \in 1..Len(rows) |->
     IF rows[i].date = NoDate THEN Ratio(1, 0) ELSE Ratio(rows[i].date, 1)]

FirstOrNone(rows) == IF rows = << >> THEN NoneRet ELSE rows[1]

\* QueryOptimizer._get_event: newest event whose name contains event_name
EventsLike(event_name) ==
  FilterIdx(events,
            [i \in 1..Len(events) |-> ILikeContains(events[i].name, event_name)], 1)

NewestFirst(rows) == SortDesc(rows, DateKeys(rows))

_get_event(event_name) == FirstOrNone(NewestFirst(EventsLike(event_name)))

\* QueryOptimizer._get_fights_for_event
_get_fights_for_event(event_id) ==
  FilterIdx(fights, [i \in 1..Len(fights) |-> fights[i].event_id = event_id], 1)

\* the tags of one pick, in the order the store returns the pick_tags rows
TagsOfPick(pid) ==
  FilterIdx([i \in 1..Len(pick_tags) |-> pick_tags[i].tag],
            [i \in 1..Len(pick_tags) |-> pick_tags[i].pick_id = pid], 1)

\* lines 74-87 of _get_picks_for_fight: p["tags"] for every pick
AttachTags(picks) ==
  [i \in 1..Len(picks) |->
     [pick_id |-> picks[i].pick_id,
      analyst_name |-> picks[i].analyst_name,
      picked_fighter |-> picks[i].picked_fighter,
      method_prediction |-> picks[i].method_prediction,
      reasoning_notes |-> picks[i].reasoning_notes,
      tags |-> TagsOfPick(picks[i].pick_id)]]

\* QueryOptimizer._get_picks_for_fight: the fight's picks with tags attached
_get_picks_for_fight(fight_id) ==
  AttachTags(FilterIdx(analyst_picks,
                       [i \in 1..Len(analyst_picks) |->
                          analyst_picks[i].fight_id = fight_id], 1))

\* the side threshold of _classify_picks
ClassifyThreshold == 60

\* A variant of the rule below that sends an equal score to fighter B; the
\* tie convention of the classification properties must tell the two apart.
SideOfScoresTieToB(score_a, score_b) ==
  IF ~ScoreGeq(score_b, score_a) /\ ScoreGeq(score_a, ScoreOf(ClassifyThreshold))
    THEN "a"
  ELSE IF ScoreGeq(score_b, score_a) /\ ScoreGeq(score_b, ScoreOf(ClassifyThreshold))
    THEN "b"
  ELSE "none"

\* the branch of _classify_picks taken for a pick with the two scores
SideOfScores(score_a, score_b) ==
  IF ScoreGeq(score_a, score_b) /\ ScoreGeq(score_a, ScoreOf(ClassifyThreshold))
    THEN "a"
  ELSE IF ~ScoreGeq(score_a, score_b) /\ ScoreGeq(score_b, ScoreOf(ClassifyThreshold))
    THEN "b"
  ELSE "none"

\* the branch of _classify_picks taken for one pick: "a", "b" or "none"
\* (a picked_fighter of None is stored as the empty text: "or ''")
SideOf(p, fighter_a, fighter_b) ==
  SideOfScores(ScoreTable[p.picked_fighter][fighter_a],
               ScoreTable[p.picked_fighter][fighter_b])

\* QueryOptimizer._classify_picks
_classify_picks(picks, fighter_a, fighter_b) ==
  [picks_a |-> FilterIdx(picks, [i \in 1..Len(picks) |->
                                   SideOf(picks[i], fighter_a, fighter_b) = "a"], 1),
   picks_b |-> FilterIdx(picks, [i \in 1..Len(picks) |->
                                   SideOf(picks[i], fighter_a, fighter_b) = "b"], 1)]

\* the method and note columns as Python sees them
HasMethod(p) == Truthy(p.method_prediction)

HasNotes(p) == Truthy(p.reasoning_notes)

\* [{"tag": tag, "count": cnt} for tag, cnt in counter.most_common(n)]
TopTagsOf(common) ==
  [i \in 1..Len(common) |-> [tag |-> common[i].key, count |-> common[i].count]]

TopTags(all_tags, n) == TopTagsOf(most_common(Counter(all_tags), n))

MethodsOf(picks) == [i \in 1..Len(picks) |-> picks[i].method_prediction]

NotesOf(picks) == [i \in 1..Len(picks) |-> picks[i].reasoning_notes]

TagsOf(picks) == Flatten([i \in 1..Len(picks) |-> picks[i].tags])

\* QueryOptimizer._build_fighter_context
_build_fighter_context(picks) ==
  [top_tags |-> TopTags(TagsOf(picks), 5),
   methods |->
     Counter(MethodsOf(FilterIdx(picks, [i \in 1..Len(picks) |-> HasMethod(picks[i])], 1))),
   example_rationales |->
     Take(NotesOf(FilterIdx(picks, [i \in 1..Len(picks) |-> HasNotes(picks[i])], 1)), 3)]

\* The analysts known to the model, in the iteration order a set of them has
\* under hash seed 0; under any other seed the order is the reverse.
\* (str hashes are salted per process, so list(set) order is fixed within a
\* process and arbitrary across processes.)
AnalystNames == << "Luke Thomas", "Brian Campbell", "Chael Sonnen", "Din Thomas" >>

AnalystRank(name) == CHOOSE i \in 1..Len(AnalystNames) : AnalystNames[i] = name

\* the position (from 0) of x when the set S is iterated
IterPos(S, x) ==
  IF hash_seed = 0
    THEN Cardinality({ y \in S : AnalystRank(y) < AnalystRank(x) })
    ELSE Cardinality({ y \in S : AnalystRank(y) > AnalystRank(x) })

\* list(set_of_names)
ListOfSet(S) == [r \in 1..Cardinality(S) |-> CHOOSE x \in S : IterPos(S, x) = r - 1]

AnalystSet(picks) == { picks[i].analyst_name : i \in 1..Len(picks) }

VsText == << " ", "v", "s", " " >>

UnknownEvent ==
  << "U", "n", "k", "n", "o", "w", "n", " ", "E", "v", "e", "n", "t" >>

\* the embedded events(...) row of a fights row: the event or nothing
EventOfFight(fight) ==
  FilterIdx(events, [i \in 1..Len(events) |-> events[i].event_id = fight.event_id], 1)

EventNameOf(ev) == IF ev = << >> THEN UnknownEvent ELSE ev[1].name

FightMetaOfRows(fight_id, rows) ==
  IF rows = << >> THEN NoneRet
  ELSE [fight_id |-> fight_id,
        fighter_a |-> rows[1].fighter_a,
        fighter_b |-> rows[1].fighter_b,
        event |-> EventNameOf(EventOfFight(rows[1])),
        results_entered |-> FALSE]

\* lines 196-216 of aggregate_fight_context: the fight's own row, read when the
\* caller passed no fight_meta; NoneRet when the fight does not exist
ReadFightMeta(fight_id) ==
  FightMetaOfRows(fight_id,
    FilterIdx(fights, [i \in 1..Len(fights) |-> fights[i].fight_id = fight_id], 1))

\* lines 226-247 of aggregate_fight_context: the returned dict
FightContextOf(fight_meta, picks, picks_a, picks_b) ==
  [fight |-> [fighter_a |-> fight_meta.fighter_a,
              fighter_b |-> fight_meta.fighter_b,
              event |-> fight_meta.event,
              results_entered |-> fight_meta.results_entered],
   summary |-> [total_predictions |-> Len(picks),
                picks_for_a |-> Len(picks_a),
                picks_for_b |-> Len(picks_b)],
   fighter_a_context |-> _build_fighter_context(picks_a),
   fighter_b_context |-> _build_fighter_context(picks_b),
   analyst_info |->
     [fighter_a_high_accuracy_count |-> Len(picks_a),
      fighter_b_high_accuracy_count |-> Len(picks_b),
      reveal_names |-> TRUE,
      top_analysts_a |-> Take(ListOfSet(AnalystSet(picks_a)), 5),
      top_analysts_b |-> Take(ListOfSet(AnalystSet(picks_b)), 5)]]

FightContextOfSides(fight_meta, picks, cl) ==
  FightContextOf(fight_meta, picks, cl.picks_a, cl.picks_b)

\* lines 218-224 of aggregate_fight_context
AggregatePicks(fight_meta, picks) ==
  IF picks = << >> THEN NoneRet
  ELSE FightContextOfSides(fight_meta, picks,
         _classify_picks(picks, fight_meta.fighter_a, fight_meta.fighter_b))

AggregateWithMeta(fight_id, fight_meta) ==
  IF fight_meta = NoneRet THEN NoneRet
  ELSE AggregatePicks(fight_meta, _get_picks_for_fight(fight_id))

\* QueryOptimizer.aggregate_fight_context
aggregate_fight_context(fight_id, fight_meta_arg) ==
  AggregateWithMeta(fight_id,
    IF fight_meta_arg = NoneRet THEN ReadFightMeta(fight_id) ELSE fight_meta_arg)

ConsensusKeys(entries) == [i \in 1..Len(entries) |-> entries[i].consensus_percentage]

\* Variants of the consensus computation, each off by one plausible slip; the
\* consensus properties below must tell every one of them from the code's.
\* (1) an equal split goes to fighter B
ConsensusOfCountsTieToB(fight, na, nb) ==
  IF na + nb = 0 THEN << >>
  ELSE << [fight |-> fight.fighter_a \o VsText \o fight.fighter_b,
           fighter_a |-> fight.fighter_a,
           fighter_b |-> fight.fighter_b,
           consensus_fighter |-> IF na > nb THEN fight.fighter_a ELSE fight.fighter_b,
           consensus_count |-> Max2(na, nb),
           opposing_count |-> Min2(na, nb),
           total_predictions |-> na + nb,
           consensus_percentage |-> Ratio(Max2(na, nb) * 100, na + nb),
           high_accuracy_count |-> Max2(na, nb)] >>

\* (2) a fight without a classified pick is listed at 0%
ConsensusOfCountsNoSkip(fight, na, nb) ==
  << [fight |-> fight.fighter_a \o VsText \o fight.fighter_b,
      fighter_a |-> fight.fighter_a,
      fighter_b |-> fight.fighter_b,
      consensus_fighter |-> IF na >= nb THEN fight.fighter_a ELSE fight.fighter_b,
      consensus_count |-> Max2(na, nb),
      opposing_count |-> Min2(na, nb),
      total_predictions |-> na + nb,
      consensus_percentage |-> Ratio(Max2(na, nb) * 100, Max2(na + nb, 1)),
      high_accuracy_count |-> Max2(na, nb)] >>

\* lines 265-285 of get_event_consensus_picks, from the sizes of the two sides
ConsensusOfCounts(fight, na, nb) ==
  IF na + nb = 0 THEN << >>
  ELSE << [fight |-> fight.fighter_a \o VsText \o fight.fighter_b,
           fighter_a |-> fight.fighter_a,
           fighter_b |-> fight.fighter_b,
           consensus_fighter |-> IF na >= nb THEN fight.fighter_a ELSE fight.fighter_b,
           consensus_count |-> Max2(na, nb),
           opposing_count |-> Min2(na, nb),
           total_predictions |-> na + nb,
           consensus_percentage |-> Ratio(Max2(na, nb) * 100, na + nb),
           high_accuracy_count |-> Max2(na, nb)] >>

ConsensusOfSides(fight, cl) == ConsensusOfCounts(fight, Len(cl.picks_a), Len(cl.picks_b))

\* (3) the total counts every pick of the fight, as len(picks) would
ConsensusOfSidesAllCounted(fight, n, cl) ==
  IF Len(cl.picks_a) + Len(cl.picks_b) = 0 THEN << >>
  ELSE << [fight |-> fight.fighter_a \o VsText \o fight.fighter_b,
           fighter_a |-> fight.fighter_a,
           fighter_b |-> fight.fighter_b,
           consensus_fighter |->
             IF Len(cl.picks_a) >= Len(cl.picks_b) THEN fight.fighter_a
             ELSE fight.fighter_b,
           consensus_count |-> Max2(Len(cl.picks_a), Len(cl.picks_b)),
           opposing_count |-> Min2(Len(cl.picks_a), Len(cl.picks_b)),
           total_predictions |-> n,
           consensus_percentage |-> Ratio(Max2(Len(cl.picks_a), Len(cl.picks_b)) * 100, n),
           high_accuracy_count |-> Max2(Len(cl.picks_a), Len(cl.picks_b))] >>

ConsensusOfPicksAllCounted(fight, picks) ==
  IF picks = << >> THEN << >>
  ELSE ConsensusOfSidesAllCounted(fight, Len(picks),
         _classify_picks(picks, fight.fighter_a, fight.fighter_b))

ConsensusOfPicks(fight, picks) ==
  IF picks = << >> THEN << >>
  ELSE ConsensusOfSides(fight, _classify_picks(picks, fight.fighter_a, fight.fighter_b))

\* the body of the loop of get_event_consensus_picks for one fight:
\* the entry appended, or nothing when the loop continues
ConsensusEntry(fight) == ConsensusOfPicks(fight, _get_picks_for_fight(fight.fight_id))

ConsensusOfFights(fs) == Flatten([i \in 1..Len(fs) |-> ConsensusEntry(fs[i])])

\* (4) sorted(...) ascending and then reversed: equal percentages change places
AscendingKeys(entries) ==
  [i \in 1..Len(entries) |->
     Ratio(0 - entries[i].consensus_percentage.num, entries[i].consensus_percentage.den)]

ReversedSort(entries) == Reverse(SortDesc(entries, AscendingKeys(entries)))

ConsensusOfEventReversed(event) ==
  IF event = NoneRet THEN NoneRet
  ELSE [event |-> event.name,
        results_entered |-> FALSE,
        consensus_picks |->
          ReversedSort(ConsensusOfFights(_get_fights_for_event(event.event_id)))]

SortedConsensus(entries) == SortDesc(entries, ConsensusKeys(entries))

ConsensusOfEvent(event) ==
  IF event = NoneRet THEN NoneRet
  ELSE [event |-> event.name,
        results_entered |-> FALSE,
        consensus_picks |->
          SortedConsensus(ConsensusOfFights(_get_fights_for_event(event.event_id)))]

\* QueryOptimizer.get_event_consensus_picks
get_event_consensus_picks(event_name) == ConsensusOfEvent(_get_event(event_name))

\* finish_methods of get_inside_distance_picks
finish_methods == { "KO/TKO", "Submission", "KO", "TKO", "Sub" }

\* the finish threshold of get_inside_distance_picks
MinFinishPicks == 3

FinishKeys(entries) ==
  [i \in 1..Len(entries) |-> Ratio(entries[i].finish_prediction_count, 1)]

SortedInsideDistance(entries) == SortDesc(entries, FinishKeys(entries))

MethodEntries(picks) == [i \in 1..Len(picks) |-> [method |-> picks[i].method_prediction]]

\* lines 323-340 of get_inside_distance_picks
InsideDistanceOfCounts(fight, n_finish, picks_a, picks_b, favored_is_a) ==
  << [fight |-> fight.fighter_a \o VsText \o fight.fighter_b,
      fighter_a |-> fight.fighter_a,
      fighter_b |-> fight.fighter_b,
      favored_fighter |-> IF favored_is_a THEN fight.fighter_a ELSE fight.fighter_b,
      finish_prediction_count |-> Max2(Len(picks_a), Len(picks_b)),
      methods |->
        \* method_picks = picks_a if favored == fight["fighter_a"] else picks_b
        IF (IF favored_is_a THEN fight.fighter_a ELSE fight.fighter_b) = fight.fighter_a
          THEN MethodEntries(FilterIdx(picks_a,
                 [i \in 1..Len(picks_a) |-> HasMethod(picks_a[i])], 1))
          ELSE MethodEntries(FilterIdx(picks_b,
                 [i \in 1..Len(picks_b) |-> HasMethod(picks_b[i])], 1)),
      total_finish_predictions |-> n_finish] >>

\* A variant of the choice of the favored side below: a tie goes to fighter_b.
InsideDistanceOfSidesTieToB(fight, n_finish, cl) ==
  IF Len(cl.picks_a) = 0 /\ Len(cl.picks_b) = 0 THEN << >>
  ELSE InsideDistanceOfCounts(fight, n_finish, cl.picks_a, cl.picks_b,
                              Len(cl.picks_a) > Len(cl.picks_b))

InsideDistanceOfSides(fight, n_finish, cl) ==
  IF Len(cl.picks_a) = 0 /\ Len(cl.picks_b) = 0 THEN << >>
  ELSE InsideDistanceOfCounts(fight, n_finish, cl.picks_a, cl.picks_b,
                              Len(cl.picks_a) >= Len(cl.picks_b))

\* A variant of the finish threshold below: two finish picks are enough.
InsideDistanceOfFinishTwo(fight, finish_picks) ==
  IF Len(finish_picks) < MinFinishPicks - 1 THEN << >>
  ELSE InsideDistanceOfSides(fight, Len(finish_picks),
         _classify_picks(finish_picks, fight.fighter_a, fight.fighter_b))

InsideDistanceOfFinish(fight, finish_picks) ==
  IF Len(finish_picks) < MinFinishPicks THEN << >>
  ELSE InsideDistanceOfSides(fight, Len(finish_picks),
         _classify_picks(finish_picks, fight.fighter_a, fight.fighter_b))

InsideDistanceOfPicks(fight, picks) ==
  InsideDistanceOfFinish(fight,
    FilterIdx(picks,
              [i \in 1..Len(picks) |-> picks[i].method_prediction \in finish_methods], 1))

\* the body of the loop of get_inside_distance_picks for one fight
InsideDistanceEntry(fight) ==
  InsideDistanceOfPicks(fight, _get_picks_for_fight(fight.fight_id))

InsideDistanceOfFights(fs) == Flatten([i \in 1..Len(fs) |-> InsideDistanceEntry(fs[i])])

InsideDistanceOfEvent(event) ==
  IF event = NoneRet THEN NoneRet
  ELSE [event |-> event.name,
        inside_distance_picks |->
          SortedInsideDistance(
            InsideDistanceOfFights(_get_fights_for_event(event.event_id)))]

\* QueryOptimizer.get_inside_distance_picks
get_inside_distance_picks(event_name) == InsideDistanceOfEvent(_get_event(event_name))

\* the eligibility thresholds of get_event_underdogs
MinUnderdogTotal == 5

MinUnderdogCount == 2

ValueKeys(entries) == [i \in 1..Len(entries) |-> entries[i].value_score]

SortedUnderdogs(entries) == SortDesc(entries, ValueKeys(entries))

AnalystEntries(picks) ==
  [i \in 1..Len(picks) |->
     [name |-> picks[i].analyst_name, accuracy |-> 0,
      reasoning |-> picks[i].reasoning_notes]]

\* Variants of the underdog computation below.
\* (1) an even split is kept: "underdog_count > total / 2" in place of ">="
UnderdogOfListsTieKept(fight, underdog_is_a, underdog_picks_list, favorite_picks_list, total) ==
  IF Len(underdog_picks_list) < MinUnderdogCount
     \/ 2 * Len(underdog_picks_list) > total
    THEN << >>
  ELSE << [fight |-> fight.fighter_a \o VsText \o fight.fighter_b,
           fighter_a |-> fight.fighter_a,
           fighter_b |-> fight.fighter_b,
           underdog |-> IF underdog_is_a THEN fight.fighter_a ELSE fight.fighter_b,
           underdog_count |-> Len(underdog_picks_list),
           favorite_count |-> Len(favorite_picks_list),
           total_predictions |-> total,
           underdog_percentage |-> Ratio(Len(underdog_picks_list) * 100, total),
           high_accuracy_analysts |-> AnalystEntries(underdog_picks_list),
           value_score |-> Ratio(Len(underdog_picks_list), total),
           top_tags |-> TopTags(TagsOf(underdog_picks_list), 3)] >>

\* (2) the tags of both sides are counted
UnderdogOfListsAllTags(fight, underdog_is_a, underdog_picks_list, favorite_picks_list, total) ==
  IF Len(underdog_picks_list) < MinUnderdogCount
     \/ 2 * Len(underdog_picks_list) >= total
    THEN << >>
  ELSE << [fight |-> fight.fighter_a \o VsText \o fight.fighter_b,
           fighter_a |-> fight.fighter_a,
           fighter_b |-> fight.fighter_b,
           underdog |-> IF underdog_is_a THEN fight.fighter_a ELSE fight.fighter_b,
           underdog_count |-> Len(underdog_picks_list),
           favorite_count |-> Len(favorite_picks_list),
           total_predictions |-> total,
           underdog_percentage |-> Ratio(Len(underdog_picks_list) * 100, total),
           high_accuracy_analysts |-> AnalystEntries(underdog_picks_list),
           value_score |-> Ratio(Len(underdog_picks_list), total),
           top_tags |-> TopTags(TagsOf(underdog_picks_list \o favorite_picks_list), 3)] >>

\* lines 372-401 of get_event_underdogs
UnderdogOfLists(fight, underdog_is_a, underdog_picks_list, favorite_picks_list, total) ==
  \* underdog_count >= total / 2 compares two small integers as floats
  IF Len(underdog_picks_list) < MinUnderdogCount
     \/ 2 * Len(underdog_picks_list) >= total
    THEN << >>
  ELSE << [fight |-> fight.fighter_a \o VsText \o fight.fighter_b,
           fighter_a |-> fight.fighter_a,
           fighter_b |-> fight.fighter_b,
           underdog |-> IF underdog_is_a THEN fight.fighter_a ELSE fight.fighter_b,
           underdog_count |-> Len(underdog_picks_list),
           favorite_count |-> Len(favorite_picks_list),
           total_predictions |-> total,
           underdog_percentage |-> Ratio(Len(underdog_picks_list) * 100, total),
           high_accuracy_analysts |-> AnalystEntries(underdog_picks_list),
           value_score |-> Ratio(Len(underdog_picks_list), total),
           top_tags |-> TopTags(TagsOf(underdog_picks_list), 3)] >>

\* lines 364-371 of get_event_underdogs
UnderdogOfSides(fight, picks_a, picks_b) ==
  IF Len(picks_a) + Len(picks_b) < MinUnderdogTotal THEN << >>
  ELSE IF Len(picks_a) < Len(picks_b)
    THEN UnderdogOfLists(fight, TRUE, picks_a, picks_b, Len(picks_a) + Len(picks_b))
    ELSE UnderdogOfLists(fight, FALSE, picks_b, picks_a, Len(picks_a) + Len(picks_b))

UnderdogOfClassified(fight, cl) == UnderdogOfSides(fight, cl.picks_a, cl.picks_b)

\* the body of the loop of get_event_underdogs for one fight
UnderdogEntry(fight) ==
  UnderdogOfClassified(fight,
    _classify_picks(_get_picks_for_fight(fight.fight_id), fight.fighter_a, fight.fighter_b))

UnderdogOfFights(fs) == Flatten([i \in 1..Len(fs) |-> UnderdogEntry(fs[i])])

UnderdogOfEvent(event) ==
  IF event = NoneRet THEN NoneRet
  ELSE [event |-> event.name,
        results_entered |-> FALSE,
        underdog_picks |->
          SortedUnderdogs(UnderdogOfFights(_get_fights_for_event(event.event_id)))]

\* QueryOptimizer.get_event_underdogs
get_event_underdogs(event_name) == UnderdogOfEvent(_get_event(event_name))

(***************************************************************************)
(* Text operations of ChatMMABot                                           *)
(***************************************************************************)

LowerChars == { Alphabet[i] : i \in 44..69 }

DigitChars == { Alphabet[i] : i \in 6..15 }

Spaces == { " " }

\* \w of the re module, over the modelled alphabet
WordChars == UpperChars \cup LowerChars \cup DigitChars \cup { "_" }

UpperChar(c) == IF c \in LowerChars THEN Alphabet[Ord(c) - 27] ELSE c

\* str.title(): a letter after a letter is lowered, any other letter is raised
Title(s) ==
  [i \in 1..Len(s) |->
     IF i > 1 /\ s[i - 1] \in (UpperChars \cup LowerChars)
       THEN LowerChar(s[i]) ELSE UpperChar(s[i])]

\* s[i:].startswith(w), positions from 1
StartsAt(s, i, w) ==
  /\ i >= 1
  /\ i + Len(w) - 1 <= Len(s)
  /\ \A j \in 1..Len(w) : s[i + j - 1] = w[j]

\* how many characters of the set follow each other in s from position p
RECURSIVE RunLen(_, _, _)
RunLen(s, p, S) ==
  IF p >= 1 /\ p <= Len(s) /\ s[p] \in S THEN 1 + RunLen(s, p + 1, S) ELSE 0

\* str.strip()
Strip(s) ==
  IF RunLen(s, 1, Spaces) = Len(s) THEN << >>
  ELSE SubSeq(s, RunLen(s, 1, Spaces) + 1, Len(s) - RunLen(Reverse(s), 1, Spaces))

\* the first position at which sep occurs in s; 0 when it does not
FirstIndex(s, sep) ==
  IF Contains(s, sep)
    THEN CHOOSE i \in 1..Len(s) :
           StartsAt(s, i, sep) /\ \A j \in 1..(i - 1) : ~StartsAt(s, j, sep)
    ELSE 0

\* s.split(sep)[0] and s.split(sep)[1], for a sep that occurs in s
BeforeSep(s, sep) == SubSeq(s, 1, FirstIndex(s, sep) - 1)

AfterSep(s, sep) == SubSeq(s, FirstIndex(s, sep) + Len(sep), Len(s))

SplitPart0(s, sep) == BeforeSep(s, sep)

SplitPart1(s, sep) ==
  IF Contains(AfterSep(s, sep), sep) THEN BeforeSep(AfterSep(s, sep), sep)
  ELSE AfterSep(s, sep)

\* re.sub(r"[^\w\s']", "", s)
StripPunctuation(s) ==
  FilterIdx(s, [i \in 1..Len(s) |-> s[i] \in (WordChars \cup Spaces \cup { "'" })], 1)

\* words[-2:] if len(words) >= 2 else words[-1:]
LastTwo(words) ==
  IF Len(words) >= 2 THEN SubSeq(words, Len(words) - 1, Len(words)) ELSE words

\* words[:2] if len(words) >= 2 else words[:1]
FirstTwo(words) == IF Len(words) >= 2 THEN SubSeq(words, 1, 2) ELSE words

ReUfc == << "u", "f", "c" >>

ReVegas == << "v", "e", "g", "a", "s" >>

ReFight == << "f", "i", "g", "h", "t" >>

ReNight == << "n", "i", "g", "h", "t" >>

UfcPrefix == << "U", "F", "C", " " >>

\* where a match of \s+\d+ that starts at p ends (exclusive); 0 without a match
SpacesDigitsEnd(s, p) ==
  IF RunLen(s, p, Spaces) > 0 /\ RunLen(s, p + RunLen(s, p, Spaces), DigitChars) > 0
    THEN p + RunLen(s, p, Spaces) + RunLen(s, p + RunLen(s, p, Spaces), DigitChars)
    ELSE 0

\* where a match of (\d+|vegas\s+\d+|fight\s+night\s+\d+) that starts at p
\* ends (exclusive); 0 without a match
GroupEnd(s, p) ==
  IF RunLen(s, p, DigitChars) > 0 THEN p + RunLen(s, p, DigitChars)
  ELSE IF StartsAt(s, p, ReVegas) THEN SpacesDigitsEnd(s, p + 5)
  ELSE IF /\ StartsAt(s, p, ReFight)
          /\ RunLen(s, p + 5, Spaces) > 0
          /\ StartsAt(s, p + 5 + RunLen(s, p + 5, Spaces), ReNight)
    THEN SpacesDigitsEnd(s, p + 10 + RunLen(s, p + 5, Spaces))
  ELSE 0

\* group(1) of a match of the event pattern that starts at i; empty without one
GroupAt(s, i) ==
  IF /\ StartsAt(s, i, ReUfc)
     /\ RunLen(s, i + 3, Spaces) > 0
     /\ GroupEnd(s, i + 3 + RunLen(s, i + 3, Spaces)) > 0
    THEN SubSeq(s, i + 3 + RunLen(s, i + 3, Spaces),
                GroupEnd(s, i + 3 + RunLen(s, i + 3, Spaces)) - 1)
    ELSE << >>

FirstGroup(s, hits) ==
  IF hits = { } THEN << >>
  ELSE GroupAt(s, CHOOSE i \in hits : \A j \in hits : i <= j)

\* re.search(r"ufc\s+(\d+|vegas\s+\d+|fight\s+night\s+\d+)", s).group(1):
\* the leftmost match; empty when the pattern is nowhere in s
EventGroup(s) == FirstGroup(s, { i \in 1..Len(s) : GroupAt(s, i) # << >> })

\* the keyword lists of detect_query_type, in the order the code tries them
InsideDistanceKeywords ==
  << << "i", "n", "s", "i", "d", "e", " ", "t", "h", "e", " ", "d", "i", "s", "t", "a", "n", "c", "e" >>,
     << "i", "n", "s", "i", "d", "e", " ", "d", "i", "s", "t", "a", "n", "c", "e" >>,
     << "f", "i", "n", "i", "s", "h" >>,
     << "k", "n", "o", "c", "k", "o", "u", "t" >>,
     << " ", "k", "o", " " >>,
     << "s", "u", "b", "m", "i", "s", "s", "i", "o", "n" >>,
     << "m", "o", "s", "t", " ", "l", "i", "k", "e", "l", "y", " ", "t", "o", " ", "f", "i", "n", "i", "s", "h" >>,
     << "n", "o", "t", " ", "g", "o", " ", "t", "h", "e", " ", "d", "i", "s", "t", "a", "n", "c", "e" >> >>

ConsensusKeywords ==
  << << "c", "o", "n", "s", "e", "n", "s", "u", "s" >>,
     << "t", "o", "p", " ", "p", "i", "c", "k", "s" >>,
     << "f", "a", "v", "o", "r", "i", "t", "e", "s" >>,
     << "w", "h", "o", " ", "s", "h", "o", "u", "l", "d", " ", "w", "i", "n" >>,
     << "m", "o", "s", "t", " ", "l", "i", "k", "e", "l", "y", " ", "t", "o", " ", "w", "i", "n" >>,
     << "b", "e", "s", "t", " ", "b", "e", "t", "s" >>,
     << "s", "a", "f", "e", "s", "t", " ", "p", "i", "c", "k", "s" >>,
     << "l", "o", "c", "k", "s" >> >>

UnderdogKeywords ==
  << << "u", "n", "d", "e", "r", "d", "o", "g" >>,
     << "u", "p", "s", "e", "t" >>,
     << "d", "a", "r", "k", " ", "h", "o", "r", "s", "e" >>,
     << "v", "a", "l", "u", "e", " ", "p", "i", "c", "k" >>,
     << "s", "l", "e", "e", "p", "e", "r" >>,
     << "b", "e", "s", "t", " ", "u", "n", "d", "e", "r", "d", "o", "g" >>,
     << "u", "n", "d", "e", "r", "v", "a", "l", "u", "e", "d" >>,
     << "c", "o", "n", "t", "r", "a", "r", "i", "a", "n" >> >>

Separators ==
  << << " ", "v", "s", " " >>,
     << " ", "v", "s", ".", " " >>,
     << " ", "v", "e", "r", "s", "u", "s", " " >>,
     << " ", "v", " " >>,
     << " ", "a", "g", "a", "i", "n", "s", "t", " " >> >>

(***************************************************************************)
(* ChatMMABot                                                              *)
(***************************************************************************)

\* a call that returned v, and a call that raised exc
Ok(v) == [raised |-> FALSE, value |-> v]

Raise(exc) == [raised |-> TRUE, exc |-> exc]

\* an optional text: Some(t), or NoneRet for None
Some(t) == [text |-> t]

\* "not event_name": None or the empty text
Missing(opt) == opt = NoneRet \/ opt.text = << >>

\* the parts of a formatted answer: literal wording and inserted values
Lit(s) == [lit |-> s]

Txt(t) == [txt |-> t]

EventDate(fight) == EventOfFight(fight)[1].date

\* .order("events(date)", desc=True)
FightDateKeys(rows) ==
  [i \in 1..Len(rows) |->
     IF EventDate(rows[i]) = NoDate THEN Ratio(1, 0) ELSE Ratio(EventDate(rows[i]), 1)]

FightsNewestFirst(rows) == SortDesc(rows, FightDateKeys(rows))

\* _try_order of get_fight_by_fighters: the rows of one ordering of the hints
FightRows(fa_hint, fb_hint) ==
  Take(FightsNewestFirst(
         FilterIdx(fights,
                   [i \in 1..Len(fights) |->
                      /\ ILikeContains(fights[i].fighter_a, fa_hint)
                      /\ ILikeContains(fights[i].fighter_b, fb_hint)],
                   1)),
       5)

\* QueryOptimizer._format_fight_row
_format_fight_row(row) ==
  [fight_id |-> row.fight_id,
   fighter_a |-> row.fighter_a,
   fighter_b |-> row.fighter_b,
   event |-> EventNameOf(EventOfFight(row)),
   date |-> EventDate(row),
   results_entered |-> FALSE]

RowsOfEvent(rows, event_name) ==
  FilterIdx(rows,
            [i \in 1..Len(rows) |->
               Contains(Lower(EventNameOf(EventOfFight(rows[i]))), Lower(event_name))],
            1)

\* lines 169-176 of get_fight_by_fighters, for the rows of one ordering
PreferredRow(rows, event_opt) ==
  IF ~Missing(event_opt) /\ RowsOfEvent(rows, event_opt.text) # << >>
    THEN _format_fight_row(RowsOfEvent(rows, event_opt.text)[1])
    ELSE _format_fight_row(rows[1])

FightOfOrders(rows_ab, rows_ba, event_opt) ==
  IF rows_ab # << >> THEN PreferredRow(rows_ab, event_opt)
  ELSE IF rows_ba # << >> THEN PreferredRow(rows_ba, event_opt)
  ELSE NoneRet

\* QueryOptimizer.get_fight_by_fighters; a store read that raises is caught
\* and leaves the ordering without rows
get_fight_by_fighters(fighter_a_hint, fighter_b_hint, event_opt, read_raises) ==
  FightOfOrders(IF read_raises THEN << >> ELSE FightRows(fighter_a_hint, fighter_b_hint),
                IF read_raises THEN << >> ELSE FightRows(fighter_b_hint, fighter_a_hint),
                event_opt)

NewestEventName(rows) == IF rows = << >> THEN NoneRet ELSE Some(rows[1].name)

\* ChatMMABot._extract_event_name; the fallback read of the store may raise
_extract_event_name(q, read_raises) ==
  IF EventGroup(q) # << >> THEN Ok(Some(UfcPrefix \o Title(EventGroup(q))))
  ELSE IF read_raises THEN Raise("StoreError")
  ELSE Ok(NewestEventName(NewestFirst(events)))

AnyIn(keywords, q) == \E i \in 1..Len(keywords) : Contains(q, keywords[i])

EventIntent(query_type, extracted) ==
  IF extracted.raised THEN extracted
  ELSE Ok([query_type |-> query_type, details |-> [event_name |-> extracted.value]])

\* lines 649-656 of detect_query_type
HintOf(words) == Title(Strip(StripPunctuation(Join(words))))

FightIntent(q, sep) ==
  Ok([query_type |-> "fight_specific",
      details |-> [fighter_a |-> HintOf(LastTwo(Split(SplitPart0(q, sep)))),
                   fighter_b |-> HintOf(FirstTwo(Split(SplitPart1(q, sep)))),
                   event_name |-> NoneRet]])

FightOrGeneral(q, seps) ==
  IF seps # << >> THEN FightIntent(q, seps[1])
  ELSE Ok([query_type |-> "general", details |-> << >>])

\* A variant of the order of the rule sets below: the underdog keywords are
\* tried before the inside-distance and consensus keywords.
DetectLoweredUnderdogsFirst(q, read_raises) ==
  IF AnyIn(UnderdogKeywords, q)
    THEN EventIntent("underdogs", _extract_event_name(q, read_raises))
  ELSE IF AnyIn(InsideDistanceKeywords, q)
    THEN EventIntent("inside_distance", _extract_event_name(q, read_raises))
  ELSE IF AnyIn(ConsensusKeywords, q)
    THEN EventIntent("consensus_picks", _extract_event_name(q, read_raises))
  ELSE FightOrGeneral(q, FilterIdx(Separators,
                                   [i \in 1..Len(Separators) |-> Contains(q, Separators[i])],
                                   1))

DetectLowered(q, read_raises) ==
  IF AnyIn(InsideDistanceKeywords, q)
    THEN EventIntent("inside_distance", _extract_event_name(q, read_raises))
  ELSE IF AnyIn(ConsensusKeywords, q)
    THEN EventIntent("consensus_picks", _extract_event_name(q, read_raises))
  ELSE IF AnyIn(UnderdogKeywords, q)
    THEN EventIntent("underdogs", _extract_event_name(q, read_raises))
  ELSE FightOrGeneral(q, FilterIdx(Separators,
                                   [i \in 1..Len(Separators) |-> Contains(q, Separators[i])],
                                   1))

\* ChatMMABot.detect_query_type
detect_query_type(question, read_raises) == DetectLowered(Lower(question), read_raises)

\* The token counts (each up to 25) whose exact amount lies halfway between two
\* units of 0.00001 dollar and whose float sum (input_tokens / 1e6) * 3.0 +
\* (output_tokens / 1e6) * 15.0 lies below the halfway point, so that round(x, 5)
\* gives the lower unit; at every other halfway amount in that range the float
\* lies at or above it and round gives the upper unit.
HalfwayDown ==
  { << 0, 1 >>, << 0, 11 >>, << 0, 13 >>, << 0, 15 >>, << 0, 19 >>, << 0, 21 >>,
    << 0, 23 >>, << 5, 2 >>, << 5, 4 >>, << 5, 16 >>, << 5, 18 >>, << 5, 22 >>,
    << 10, 9 >>, << 10, 11 >>, << 10, 13 >>, << 10, 21 >>, << 15, 8 >>, << 15, 16 >>,
    << 20, 7 >>, << 20, 11 >>, << 20, 15 >>, << 20, 19 >>, << 20, 21 >>, << 20, 23 >>,
    << 25, 6 >>, << 25, 8 >>, << 25, 14 >>, << 25, 16 >>, << 25, 22 >> }

\* A variant of the rounding below: the amount is cut to the unit below.
CostUnitsCut(input_tokens, output_tokens) ==
  (3 * input_tokens + 15 * output_tokens) \div 10

\* round(input_cost + output_cost, 5), in units of 0.00001 dollar
CostUnits(input_tokens, output_tokens) ==
  IF << input_tokens, output_tokens >> \in HalfwayDown
    THEN (3 * input_tokens + 15 * output_tokens - 5) \div 10
    ELSE (3 * input_tokens + 15 * output_tokens + 5) \div 10

\* ChatMMABot._estimate_cost; cost_usd in units of 0.00001 dollar
_estimate_cost(usage) ==
  [input_tokens |-> usage.input_tokens,
   output_tokens |-> usage.output_tokens,
   total_tokens |-> usage.input_tokens + usage.output_tokens,
   cost_usd |-> CostUnits(usage.input_tokens, usage.output_tokens)]

\* ChatMMABot._call_claude: the response of the API to the prompt, or the
\* exception messages.create raised
_call_claude(response) ==
  IF response.failed THEN Raise("APIError")
  ELSE Ok([answer |-> response.text, cost |-> _estimate_cost(response.usage)])

Reply(answer, metadata) == Ok([answer |-> answer, metadata |-> metadata])

ModelAnswer(called, query_type) ==
  IF called.raised THEN called
  ELSE Reply(<< Txt(called.value.answer) >>,
             [query_type |-> query_type, cost_estimate |-> called.value.cost])

FightAnswer(called, fight) ==
  IF called.raised THEN called
  ELSE Reply(<< Txt(called.value.answer) >>,
             [query_type |-> "fight_analysis", fight |-> fight,
              cost_estimate |-> called.value.cost])

\* lines 715-733 of _handle_fight_specific
FightContextAnswer(fight, context, response) ==
  IF context = NoneRet \/ context.summary.total_predictions = 0
    THEN Reply(<< Lit("Found the fight, but there are no analyst predictions yet for "),
                  Txt(fight.fighter_a), Lit(" vs "), Txt(fight.fighter_b),
                  Lit(". Try ingesting some articles from the URL Ingestion page.") >>,
               [query_type |-> "no_predictions"])
    ELSE FightAnswer(_call_claude(response), fight)

\* lines 704-714 of _handle_fight_specific
FightFoundAnswer(fa, fb, fight, faults, response) ==
  IF fight = NoneRet
    THEN Reply(<< Lit("I couldn't find a fight between "), Txt(fa), Lit(" and "), Txt(fb),
                  Lit(". Please check the fighter names or try specifying the event.") >>,
               [query_type |-> "fight_not_found"])
  ELSE IF faults.aggregate THEN Raise("StoreError")
  ELSE FightContextAnswer(fight, aggregate_fight_context(fight.fight_id, fight), response)

\* ChatMMABot._handle_fight_specific
_handle_fight_specific(details, faults, response) ==
  FightFoundAnswer(details.fighter_a, details.fighter_b,
                   get_fight_by_fighters(details.fighter_a, details.fighter_b,
                                         details.event_name, faults.lookup),
                   faults, response)

MissingEventAnswer(what) ==
  Reply(<< Lit("Please specify an event (e.g., 'UFC 309') to get "), Lit(what), Lit(".") >>,
        [query_type |-> "missing_event"])

EventNotFoundAnswer(event_name) ==
  Reply(<< Lit("I don't have predictions for '"), Txt(event_name), Lit("' yet.") >>,
        [query_type |-> "event_not_found"])

InsideDistanceAnswer(event_name, context, response) ==
  IF context = NoneRet THEN EventNotFoundAnswer(event_name)
  ELSE ModelAnswer(_call_claude(response), "inside_distance")

\* ChatMMABot._handle_inside_distance
_handle_inside_distance(details, faults, response) ==
  IF Missing(details.event_name) THEN MissingEventAnswer("inside-distance predictions")
  ELSE IF faults.aggregate THEN Raise("StoreError")
  ELSE InsideDistanceAnswer(details.event_name.text,
                            get_inside_distance_picks(details.event_name.text), response)

ConsensusAnswer(event_name, context, response) ==
  IF context = NoneRet THEN EventNotFoundAnswer(event_name)
  ELSE IF context.consensus_picks = << >>
    THEN Reply(<< Lit("Found '"), Txt(event_name),
                  Lit("', but not enough predictions to determine consensus yet.") >>,
               [query_type |-> "no_consensus"])
  ELSE ModelAnswer(_call_claude(response), "consensus_picks")

\* ChatMMABot._handle_consensus_picks
_handle_consensus_picks(details, faults, response) ==
  IF Missing(details.event_name) THEN MissingEventAnswer("consensus picks")
  ELSE IF faults.aggregate THEN Raise("StoreError")
  ELSE ConsensusAnswer(details.event_name.text,
                       get_event_consensus_picks(details.event_name.text), response)

UnderdogsAnswer(event_name, context, response) ==
  IF context = NoneRet THEN EventNotFoundAnswer(event_name)
  ELSE IF context.underdog_picks = << >>
    THEN Reply(<< Lit("Found '"), Txt(event_name),
                  Lit("', but no clear underdogs - consensus is strong across all fights.") >>,
               [query_type |-> "no_underdogs"])
  ELSE ModelAnswer(_call_claude(response), "underdogs")

\* ChatMMABot._handle_underdogs
_handle_underdogs(details, faults, response) ==
  IF Missing(details.event_name) THEN MissingEventAnswer("underdog picks")
  ELSE IF faults.aggregate THEN Raise("StoreError")
  ELSE UnderdogsAnswer(details.event_name.text,
                       get_event_underdogs(details.event_name.text), response)

\* ChatMMABot._handle_general
_handle_general(response) == ModelAnswer(_call_claude(response), "general")

\* handlers[query_type](user_question, details)
Handle(detected, faults, response) ==
  IF detected.raised THEN detected
  ELSE IF detected.value.query_type = "fight_specific"
    THEN _handle_fight_specific(detected.value.details, faults, response)
  ELSE IF detected.value.query_type = "inside_distance"
    THEN _handle_inside_distance(detected.value.details, faults, response)
  ELSE IF detected.value.query_type = "consensus_picks"
    THEN _handle_consensus_picks(detected.value.details, faults, response)
  ELSE IF detected.value.query_type = "underdogs"
    THEN _handle_underdogs(detected.value.details, faults, response)
  ELSE _handle_general(response)

\* ChatMMABot.answer_question. faults says which store reads of the request
\* raise: the fallback read of _extract_event_name (classify), the reads of
\* get_fight_by_fighters (lookup), the reads of the aggregation (aggregate).
answer_question(user_question, faults, response) ==
  Handle(detect_query_type(user_question, faults.classify), faults, response)

\* The events and fights the ingestion workflow created before the picks
\* arrive (dates as yyyymmdd).
SeedEvents ==
  << [event_id |-> 1, name |-> Ufc309, date |-> 20241116],
     [event_id |-> 2, name |-> Ufc310, date |-> 20241207] >>

SeedFights ==
  << [fight_id |-> 1, event_id |-> 1, fighter_a |-> JonJones, fighter_b |-> TomAspinall],
     [fight_id |-> 2, event_id |-> 1, fighter_a |-> AndersonSilva, fighter_b |-> ThiagoSilva],
     [fight_id |-> 3, event_id |-> 1, fighter_a |-> MaxHolloway, fighter_b |-> IliaTopuria],
     [fight_id |-> 4, event_id |-> 2, fighter_a |-> TomAspinall, fighter_b |-> JonJones] >>

\* event names a request may carry
EventHints == { Ufc309, HintUfc310Lower, HintUfc3, HintUfc999 }

HashSeeds == { 0, 1 }

\* a row handed to save_analyst_pick / save_pick_tags
PickRow(f, analyst, picked, method, notes, tags) ==
  [fight_id |-> f, analyst_name |-> analyst, picked_fighter |-> picked,
   method_prediction |-> method, reasoning_notes |-> notes, tags |-> tags]

\* the analyst of the k-th saved pick (articles rotate over the analysts)
AnalystAt(k) == AnalystNames[((k - 1) % Len(AnalystNames)) + 1]

\* the store after save_analyst_pick and save_pick_tags for each row in turn
RECURSIVE SavedPicks(_, _)
SavedPicks(table, rows) ==
  IF rows = << >> THEN table
  ELSE SavedPicks(InsertPick(table, rows[1]), Tail(rows))

RECURSIVE SavedTags(_, _, _)
SavedTags(table, next_id, rows) ==
  IF rows = << >> THEN table
  ELSE SavedTags(InsertTags(table, next_id, rows[1].tags), next_id + 1, Tail(rows))

(***************************************************************************)
(* Operations                                                              *)
(***************************************************************************)

\* pages/1_url_ingestion.py, one iteration of the save loop:
\* save_analyst_pick(pick_row) then save_pick_tags(pick_id, tags).
\* A reply computed before the write no longer describes the store.
SavePick(row) ==
  /\ analyst_picks' = InsertPick(analyst_picks, row)
  /\ pick_tags' = InsertTags(pick_tags, Len(analyst_picks) + 1, row.tags)
  /\ result' = NoResult
  /\ UNCHANGED << events, fights, hash_seed >>
  /\ UNCHANGED pages

\* a call of _classify_picks on the picks of a stored fight
ClassifyReply(fight, picks, cl) ==
  [op |-> "_classify_picks",
   fighter_a |-> fight.fighter_a, fighter_b |-> fight.fighter_b,
   picks |-> picks, picks_a |-> cl.picks_a, picks_b |-> cl.picks_b]

ClassifyCall(fight, picks) ==
  ClassifyReply(fight, picks, _classify_picks(picks, fight.fighter_a, fight.fighter_b))

ClassifyPicks(i) ==
  /\ result' = ClassifyCall(fights[i], _get_picks_for_fight(fights[i].fight_id))
  /\ UNCHANGED << events, fights, analyst_picks, pick_tags, hash_seed >>
  /\ UNCHANGED pages

\* a call aggregate_fight_context(fight_id) without fight_meta
AggregateFightContext(fight_id) ==
  /\ result' = [op |-> "aggregate_fight_context", fight_id |-> fight_id,
                ret |-> aggregate_fight_context(fight_id, NoneRet)]
  /\ UNCHANGED << events, fights, analyst_picks, pick_tags, hash_seed >>
  /\ UNCHANGED pages

GetEventConsensusPicks(event_name) ==
  /\ result' = [op |-> "get_event_consensus_picks", event_name |-> event_name,
                ret |-> get_event_consensus_picks(event_name)]
  /\ UNCHANGED << events, fights, analyst_picks, pick_tags, hash_seed >>
  /\ UNCHANGED pages

GetInsideDistancePicks(event_name) ==
  /\ result' = [op |-> "get_inside_distance_picks", event_name |-> event_name,
                ret |-> get_inside_distance_picks(event_name)]
  /\ UNCHANGED << events, fights, analyst_picks, pick_tags, hash_seed >>
  /\ UNCHANGED pages

GetEventUnderdogs(event_name) ==
  /\ result' = [op |-> "get_event_underdogs", event_name |-> event_name,
                ret |-> get_event_underdogs(event_name)]
  /\ UNCHANGED << events, fights, analyst_picks, pick_tags, hash_seed >>
  /\ UNCHANGED pages

(***************************************************************************)
(* Specification Spec: side classification and the fight context, over     *)
(* every store of at most MaxPicks picks with varied picked_fighter texts  *)
(***************************************************************************)

MaxPicks == 2

PickedTexts ==
  { PickJones, PickJonesUpper, PickJonas, PickSpin, PickAspinal, PickSilva,
    PickTSilva, ThiagoSilva, PickXyz, PickNone }

Init ==
  /\ events = SeedEvents
  /\ fights = SeedFights
  /\ analyst_picks = << >>
  /\ pick_tags = << >>
  /\ hash_seed \in HashSeeds
  /\ PagesIdle
  /\ result = NoResult

\* The page and the bot serve one request at a time: a request starts when no
\* reply is pending, and a reply is gone once its caller has used it.
ReplyConsumed ==
  /\ result # NoResult
  /\ result' = NoResult
  /\ UNCHANGED << events, fights, analyst_picks, pick_tags, hash_seed >>
  /\ UNCHANGED pages

SaveAnyPick ==
  /\ result = NoResult
  /\ Len(analyst_picks) < MaxPicks
  /\ \E f \in 1..2, picked \in PickedTexts :
       SavePick(PickRow(f, AnalystAt(Len(analyst_picks) + 1), picked,
                        "Decision", NULL, << >>))

CallClassifyPicks ==
  /\ result = NoResult
  /\ \E i \in 1..Len(fights) : ClassifyPicks(i)

CallAggregateFightContext ==
  /\ result = NoResult
  /\ \E fight_id \in 1..(Len(fights) + 1) : AggregateFightContext(fight_id)

Next ==
  \/ SaveAnyPick
  \/ CallClassifyPicks
  \/ CallAggregateFightContext
  \/ ReplyConsumed

Spec == Init /\ [][Next]_vars

(***************************************************************************)
(* Specification SpecEvent: the three event-level queries, over stores    *)
(* that hold up to MaxSide picks for each fighter of the first two fights *)
(* of UFC 309                                                              *)
(***************************************************************************)

MaxSide == 4

MaxUnclear == 1

\* what the analysts of the ingested articles wrote for each side of a fight
TextA(f) == IF f = 1 THEN PickJones ELSE IF f = 2 THEN PickSilva ELSE PickHolloway

TextB(f) == IF f = 1 THEN PickAspinal ELSE IF f = 2 THEN ThiagoSilva ELSE PickTopuria

\* the method, notes and tags of the k-th pick of the ingested articles
MethodCycle == << "KO/TKO", "Decision", "Submission", "KO", NULL, "TKO", "Sub" >>

MethodAt(k) == MethodCycle[((k - 1) % Len(MethodCycle)) + 1]

NotesAt(k) == IF k % 2 = 1 THEN "reach advantage" ELSE NULL

TagCycle ==
  << << "wrestling", "cardio" >>, << "striking", "power" >>, << "cardio" >>, << >> >>

TagsAt(k) == TagCycle[((k - 1) % Len(TagCycle)) + 1]

\* the rows of one fight: n_a picks of fighter A, then n_b of fighter B, then
\* n_x that name neither, as picks (after + 1) .. (after + n_a + n_b + n_x)
CardRows(f, n_a, n_b, n_x, after) ==
  [k \in 1..(n_a + n_b + n_x) |->
     PickRow(f, AnalystAt(after + k),
             IF k <= n_a THEN TextA(f) ELSE IF k <= n_a + n_b THEN TextB(f) ELSE PickXyz,
             MethodAt(after + k), NotesAt(after + k), TagsAt(after + k))]

EventRows(a1, b1, x1, a2, b2, third) ==
  CardRows(1, a1, b1, x1, 0)
    \o CardRows(2, a2, b2, 0, a1 + b1 + x1)
    \o (IF third THEN CardRows(3, 2, 3, 0, a1 + b1 + x1 + a2 + b2) ELSE << >>)

StoreHolds(rows) ==
  /\ analyst_picks = SavedPicks(<< >>, rows)
  /\ pick_tags = SavedTags(<< >>, 1, rows)

InitEvent ==
  /\ events = SeedEvents
  /\ fights = SeedFights
  /\ hash_seed = 0
  /\ PagesIdle
  /\ result = NoResult
  /\ \E a1 \in 0..MaxSide, b1 \in 0..MaxSide, x1 \in 0..MaxUnclear,
        a2 \in 0..MaxSide, b2 \in 0..MaxSide, third \in BOOLEAN :
       StoreHolds(EventRows(a1, b1, x1, a2, b2, third))

CallGetEventConsensusPicks ==
  /\ result = NoResult
  /\ \E event_name \in EventHints : GetEventConsensusPicks(event_name)

CallGetInsideDistancePicks ==
  /\ result = NoResult
  /\ \E event_name \in EventHints : GetInsideDistancePicks(event_name)

CallGetEventUnderdogs ==
  /\ result = NoResult
  /\ \E event_name \in EventHints : GetEventUnderdogs(event_name)

NextEvent ==
  \/ CallGetEventConsensusPicks
  \/ CallGetInsideDistancePicks
  \/ CallGetEventUnderdogs
  \/ ReplyConsumed

SpecEvent == InitEvent /\ [][NextEvent]_vars

(***************************************************************************)
(* Specification SpecBot: answer_question, for a fresh store, a store with *)
(* events and fights only, and a store with picks; with store reads and    *)
(* the model call failing or not                                           *)
(***************************************************************************)

AskJonesAspinall ==
  << "J", "o", "n", "e", "s", " ", "v", "s", " ", "A", "s", "p", "i", "n", "a", "l", "l" >>

AskWhoWins ==
  << "W", "h", "o", " ", "w", "i", "n", "s", " ", "J", "o", "n", "e", "s", " ", "v", "s", " ", "A", "s", "p", "i", "n", "a", "l", "l", "?" >>

AskHollowayTopuria ==
  << "H", "o", "l", "l", "o", "w", "a", "y", " ", "v", "e", "r", "s", "u", "s", " ", "T", "o", "p", "u", "r", "i", "a", "." >>

AskConsensus309 ==
  << "c", "o", "n", "s", "e", "n", "s", "u", "s", " ", "f", "o", "r", " ", "U", "F", "C", " ", "3", "0", "9" >>

AskTopPicks ==
  << "t", "o", "p", " ", "p", "i", "c", "k", "s" >>

AskUnderdogs309 ==
  << "B", "e", "s", "t", " ", "u", "n", "d", "e", "r", "d", "o", "g", " ", "a", "t", " ", "u", "f", "c", " ", " ", "3", "0", "9", "?" >>

AskFinish309 ==
  << "A", "n", "y", " ", "f", "i", "n", "i", "s", "h", " ", "a", "t", " ", "U", "F", "C", " ", "3", "0", "9", "?" >>

AskBestBets999 ==
  << "b", "e", "s", "t", " ", "b", "e", "t", "s", " ", "U", "F", "C", " ", "9", "9", "9" >>

AskHello ==
  << "h", "e", "l", "l", "o" >>

Questions ==
  { AskJonesAspinall,
    AskWhoWins,
    AskHollowayTopuria,
    AskConsensus309,
    AskTopPicks,
    AskUnderdogs309,
    AskFinish309,
    AskBestBets999,
    AskHello }

ModelText ==
  << "J", "o", "n", "e", "s", " ", "i", "s", " ", "t", "h", "e", " ", "p", "i", "c", "k", "." >>

\* what messages.create does: raise, or return a text with its token usage
ModelResponses ==
  { [failed |-> TRUE, text |-> << >>, usage |-> [input_tokens |-> 0, output_tokens |-> 0]],
    [failed |-> FALSE, text |-> ModelText,
     usage |-> [input_tokens |-> 1200, output_tokens |-> 300]] }

\* which store reads of a request raise
StoreFaults == [classify : BOOLEAN, lookup : BOOLEAN, aggregate : BOOLEAN]

\* ChatMMABot.answer_question as called by the chat page
AnswerQuestion(user_question, faults, response) ==
  /\ result' = [op |-> "answer_question", question |-> user_question,
                faults |-> faults, response |-> response,
                outcome |-> answer_question(user_question, faults, response)]
  /\ UNCHANGED << events, fights, analyst_picks, pick_tags, hash_seed >>
  /\ UNCHANGED pages

InitBot ==
  /\ hash_seed = 0
  /\ PagesIdle
  /\ result = NoResult
  /\ \/ /\ events = << >>
        /\ fights = << >>
        /\ StoreHolds(<< >>)
     \/ /\ events = SeedEvents
        /\ fights = SeedFights
        /\ \/ StoreHolds(<< >>)
           \/ StoreHolds(EventRows(3, 1, 1, 2, 3, TRUE))

CallAnswerQuestion ==
  /\ result = NoResult
  /\ \E user_question \in Questions, faults \in StoreFaults, response \in ModelResponses :
       AnswerQuestion(user_question, faults, response)

NextBot ==
  \/ CallAnswerQuestion
  \/ ReplyConsumed

SpecBot == InitBot /\ [][NextBot]_vars

(***************************************************************************)
(* Properties of side classification and of the fight context (Spec)      *)
(***************************************************************************)

\* the pick is one of the picks of the list (picks are told apart by pick_id)
OnSide(p, side) == \E k \in 1..Len(side) : side[k].pick_id = p.pick_id

ScoreA(p, reply) == token_set_ratio(Lower(p.picked_fighter), Lower(reply.fighter_a))

ScoreB(p, reply) == token_set_ratio(Lower(p.picked_fighter), Lower(reply.fighter_b))

AtLeastThreshold(x) == x.num >= 60 * x.den

\* C2: _classify_picks puts a pick in picks_a exactly when score_a >= score_b
\* and score_a >= 60, in picks_b exactly when score_b > score_a and
\* score_b >= 60, and in neither list otherwise; no pick is on both sides and
\* an equal score >= 60 goes to fighter A.
C2_ClassifyBySide ==
  result.op = "_classify_picks" =>
    \A i \in 1..Len(result.picks) :
      LET score_a == ScoreA(result.picks[i], result)
          score_b == ScoreB(result.picks[i], result)
          on_a == OnSide(result.picks[i], result.picks_a)
          on_b == OnSide(result.picks[i], result.picks_b)
      IN  /\ on_a <=> (ScoreGeq(score_a, score_b) /\ AtLeastThreshold(score_a))
          /\ on_b <=> (~ScoreGeq(score_a, score_b) /\ AtLeastThreshold(score_b))
          /\ ~(on_a /\ on_b)
          /\ ( /\ ScoreGeq(score_a, score_b)
               /\ ScoreGeq(score_b, score_a)
               /\ AtLeastThreshold(score_a) ) => on_a

\* a classification of Anderson Silva vs Thiago Silva in which a pick of
\* "Silva" (equal scores of 100) went to fighter A and a pick of
\* "Thiago Silva" (both scores >= 60, B higher) went to fighter B
C2_TieAndBothSidesSeen ==
  /\ result.op = "_classify_picks"
  /\ result.fighter_a = AndersonSilva
  /\ \E i \in 1..Len(result.picks_a) : result.picks_a[i].picked_fighter = PickSilva
  /\ \E i \in 1..Len(result.picks_b) : result.picks_b[i].picked_fighter = ThiagoSilva

\* C3: in the context returned by aggregate_fight_context an unclassifiable
\* pick counts toward neither side and not toward total_predictions:
\* total_predictions = picks_for_a + picks_for_b.
C3_TotalIsSumOfSides ==
  (result.op = "aggregate_fight_context" /\ result.ret # NoneRet) =>
    result.ret.summary.total_predictions =
      result.ret.summary.picks_for_a + result.ret.summary.picks_for_b

\* a context of Jon Jones vs Tom Aspinall built from a pick of "Jones" and a
\* pick of "XYZ": one pick for A, none for B, total_predictions 2
C3_UnclassifiableCounted ==
  /\ result.op = "aggregate_fight_context"
  /\ result.ret # NoneRet
  /\ result.ret.fight.fighter_a = JonJones
  /\ \E i \in 1..Len(analyst_picks) :
       analyst_picks[i].fight_id = 1 /\ analyst_picks[i].picked_fighter = PickXyz
  /\ result.ret.summary.picks_for_a = 1
  /\ result.ret.summary.picks_for_b = 0
  /\ result.ret.summary.total_predictions = 2

(***************************************************************************)
(* Properties of the event-level queries (SpecEvent)                       *)
(***************************************************************************)

\* the fights of the event a reply is about, in the order the store returns them
FightsOfReply(reply) == _get_fights_for_event(_get_event(reply.event_name).event_id)

\* the fight an entry is about among the fights fs, and its place in fs
FightIdx(fs, e) ==
  CHOOSE i \in 1..Len(fs) :
    fs[i].fighter_a = e.fighter_a /\ fs[i].fighter_b = e.fighter_b

FightOf(fs, e) == fs[FightIdx(fs, e)]

Listed(entries, fight) ==
  \E i \in 1..Len(entries) :
    entries[i].fighter_a = fight.fighter_a /\ entries[i].fighter_b = fight.fighter_b

\* the stored picks of the fight that classification puts on the side
SidePicks(fight, side) ==
  { i \in 1..Len(analyst_picks) :
      /\ analyst_picks[i].fight_id = fight.fight_id
      /\ SideOf(analyst_picks[i], fight.fighter_a, fight.fighter_b) = side }

SideCount(fight, side) == Cardinality(SidePicks(fight, side))

ClassifiedCount(fight) == SideCount(fight, "a") + SideCount(fight, "b")

StoredCount(fight) ==
  Cardinality({ i \in 1..Len(analyst_picks) : analyst_picks[i].fight_id = fight.fight_id })

RatioEq(x, y) == x.num * y.den = y.num * x.den

IsConsensusReply == result.op = "get_event_consensus_picks" /\ result.ret # NoneRet

IsUnderdogReply == result.op = "get_event_underdogs" /\ result.ret # NoneRet

IsInsideReply == result.op = "get_inside_distance_picks" /\ result.ret # NoneRet

\* C4: every entry of get_event_consensus_picks has consensus_percentage in
\* [0,100] and consensus_count + opposing_count <= total_predictions, where
\* total_predictions counts only the picks classified to one of the two sides.
C4_ConsensusBounds ==
  IsConsensusReply =>
    LET fs == FightsOfReply(result)
        es == result.ret.consensus_picks
    IN  \A i \in 1..Len(es) :
          /\ es[i].consensus_percentage.den > 0
          /\ es[i].consensus_percentage.num >= 0
          /\ es[i].consensus_percentage.num <= 100 * es[i].consensus_percentage.den
          /\ es[i].consensus_count + es[i].opposing_count <= es[i].total_predictions
          /\ es[i].total_predictions = ClassifiedCount(FightOf(fs, es[i]))

\* a consensus entry of a fight that also has a pick naming neither fighter:
\* the total is the classified picks, one less than the stored picks
C4_UnclearPickLeftOut ==
  /\ IsConsensusReply
  /\ LET fs == FightsOfReply(result)
         es == result.ret.consensus_picks
     IN  \E i \in 1..Len(es) :
           /\ es[i].total_predictions >= 2
           /\ es[i].opposing_count >= 1
           /\ StoredCount(FightOf(fs, es[i])) = es[i].total_predictions + 1

\* C5: consensus_fighter is the side with more classified picks (fighter_a
\* when equal), consensus_count is that side's size, opposing_count the other
\* side's, consensus_percentage = consensus_count / total_predictions * 100.
C5_ConsensusMajority ==
  IsConsensusReply =>
    LET fs == FightsOfReply(result)
        es == result.ret.consensus_picks
    IN  \A i \in 1..Len(es) :
          LET na == SideCount(FightOf(fs, es[i]), "a")
              nb == SideCount(FightOf(fs, es[i]), "b")
          IN  /\ es[i].consensus_fighter
                   = IF na >= nb THEN es[i].fighter_a ELSE es[i].fighter_b
              /\ es[i].consensus_count = IF na >= nb THEN na ELSE nb
              /\ es[i].opposing_count = IF na >= nb THEN nb ELSE na
              /\ es[i].consensus_percentage.den > 0
              /\ es[i].consensus_percentage.num * es[i].total_predictions
                   = es[i].consensus_count * 100 * es[i].consensus_percentage.den

\* picks [A,A,A,B] give fighter A, 3, 1, 75; and an even split gives fighter A
C5_ThreeToOne ==
  /\ IsConsensusReply
  /\ LET fs == FightsOfReply(result)
         es == result.ret.consensus_picks
     IN  /\ \E i \in 1..Len(es) :
              /\ SideCount(FightOf(fs, es[i]), "a") = 3
              /\ SideCount(FightOf(fs, es[i]), "b") = 1
              /\ es[i].consensus_fighter = es[i].fighter_a
              /\ es[i].consensus_count = 3
              /\ es[i].opposing_count = 1
              /\ RatioEq(es[i].consensus_percentage, Ratio(75, 1))
         /\ \E i \in 1..Len(es) :
              /\ es[i].consensus_count = es[i].opposing_count
              /\ es[i].consensus_fighter = es[i].fighter_a

\* C6: a fight of the resolved event is in the get_event_consensus_picks
\* output iff it has at least one classified pick; a fight with a single
\* classified pick is there at 100% and is not in get_event_underdogs' output.
C6_ConsensusPresence ==
  /\ IsConsensusReply =>
       LET fs == FightsOfReply(result)
           es == result.ret.consensus_picks
       IN  /\ \A k \in 1..Len(fs) :
                Listed(es, fs[k]) <=> ClassifiedCount(fs[k]) >= 1
           /\ \A i \in 1..Len(es) :
                ClassifiedCount(FightOf(fs, es[i])) = 1
                  => RatioEq(es[i].consensus_percentage, Ratio(100, 1))
  /\ IsUnderdogReply =>
       LET fs == FightsOfReply(result)
       IN  \A k \in 1..Len(fs) :
             ClassifiedCount(fs[k]) = 1 => ~Listed(result.ret.underdog_picks, fs[k])

\* a consensus reply for an event with a fight whose only pick names neither
\* fighter (absent) and a fight with a single classified pick (listed at 100%)
C6_SinglePickListed ==
  /\ IsConsensusReply
  /\ LET fs == FightsOfReply(result)
         es == result.ret.consensus_picks
     IN  /\ \E k \in 1..Len(fs) :
              /\ StoredCount(fs[k]) >= 1
              /\ ClassifiedCount(fs[k]) = 0
              /\ ~Listed(es, fs[k])
         /\ \E i \in 1..Len(es) :
              /\ ClassifiedCount(FightOf(fs, es[i])) = 1
              /\ RatioEq(es[i].consensus_percentage, Ratio(100, 1))

\* C7: consensus_picks is in non-increasing order of consensus_percentage, and
\* fights of equal percentage stay in the order the store returned them.
C7_ConsensusSortedStable ==
  IsConsensusReply =>
    LET fs == FightsOfReply(result)
        es == result.ret.consensus_picks
    IN  \A i \in 1..Len(es) :
          \A j \in (i + 1)..Len(es) :
            /\ ~RatioLess(es[i].consensus_percentage, es[j].consensus_percentage)
            /\ RatioEq(es[i].consensus_percentage, es[j].consensus_percentage)
                 => FightIdx(fs, es[i]) < FightIdx(fs, es[j])

\* three fights listed: two of equal percentage in the store's order, and one
\* that the sort moved ahead of a fight the store returned before it
C7_TieAndReorderSeen ==
  /\ IsConsensusReply
  /\ LET fs == FightsOfReply(result)
         es == result.ret.consensus_picks
     IN  /\ Len(es) = 3
         /\ \E i \in 1..2 :
              RatioEq(es[i].consensus_percentage, es[i + 1].consensus_percentage)
         /\ \E i \in 1..2 : FightIdx(fs, es[i]) > FightIdx(fs, es[i + 1])

\* how often the tag is attached to the picks of the set
TagCount(pick_ids, tag) ==
  Cardinality({ k \in 1..Len(pick_tags) :
                  pick_tags[k].pick_id \in pick_ids /\ pick_tags[k].tag = tag })

TagsAmong(pick_ids) ==
  { pick_tags[k].tag : k \in { j \in 1..Len(pick_tags) : pick_tags[j].pick_id \in pick_ids } }

\* the stored picks of the fight whose method is a finish
FinishPicks(fight) ==
  { i \in 1..Len(analyst_picks) :
      /\ analyst_picks[i].fight_id = fight.fight_id
      /\ analyst_picks[i].method_prediction
           \in { "KO/TKO", "Submission", "KO", "TKO", "Sub" } }

\* C8: every fight returned by get_event_underdogs has at least 5 classified
\* picks, underdog_count >= 2 and underdog_count < total_predictions / 2.
C8_UnderdogBounds ==
  IsUnderdogReply =>
    LET fs == FightsOfReply(result)
        es == result.ret.underdog_picks
    IN  \A i \in 1..Len(es) :
          /\ ClassifiedCount(FightOf(fs, es[i])) >= 5
          /\ es[i].total_predictions >= 5
          /\ es[i].underdog_count >= 2
          /\ 2 * es[i].underdog_count < es[i].total_predictions
          /\ Min2(SideCount(FightOf(fs, es[i]), "a"), SideCount(FightOf(fs, es[i]), "b"))
               >= 2

\* a fight returned on the smallest split that qualifies, 2 against 3, while a
\* fight of the same event split 2 against 2 or 3 against 3 is left out
C8_SmallestSplitListed ==
  /\ IsUnderdogReply
  /\ LET fs == FightsOfReply(result)
         es == result.ret.underdog_picks
     IN  /\ \E i \in 1..Len(es) :
              es[i].underdog_count = 2 /\ es[i].total_predictions = 5
         /\ \E k \in 1..Len(fs) :
              /\ SideCount(fs[k], "a") = SideCount(fs[k], "b")
              /\ SideCount(fs[k], "a") >= 2
              /\ ~Listed(es, fs[k])

\* C9: the underdog of a returned fight is the side with strictly fewer
\* classified picks, underdog_count + favorite_count = total_predictions,
\* value_score = underdog_count / total_predictions, top_tags are the (at most
\* 3) most frequent tags of the underdog side's picks only, and the list is in
\* non-increasing order of value_score.
C9_UnderdogSideAndScore ==
  IsUnderdogReply =>
    LET fs == FightsOfReply(result)
        es == result.ret.underdog_picks
    IN  /\ \A i \in 1..Len(es) :
             LET na == SideCount(FightOf(fs, es[i]), "a")
                 nb == SideCount(FightOf(fs, es[i]), "b")
                 side == SidePicks(FightOf(fs, es[i]), IF na < nb THEN "a" ELSE "b")
                 tops == es[i].top_tags
             IN  /\ na # nb
                 /\ es[i].underdog = IF na < nb THEN es[i].fighter_a ELSE es[i].fighter_b
                 /\ es[i].underdog_count = Min2(na, nb)
                 /\ es[i].favorite_count = Max2(na, nb)
                 /\ es[i].underdog_count + es[i].favorite_count = es[i].total_predictions
                 /\ es[i].value_score.den > 0
                 /\ es[i].value_score.num * es[i].total_predictions
                      = es[i].underdog_count * es[i].value_score.den
                 /\ Len(tops) = Min2(3, Cardinality(TagsAmong(side)))
                 /\ \A k \in 1..Len(tops) :
                      /\ tops[k].tag \in TagsAmong(side)
                      /\ tops[k].count = TagCount(side, tops[k].tag)
                      /\ \A m \in (k + 1)..Len(tops) :
                           tops[m].tag # tops[k].tag /\ tops[m].count <= tops[k].count
                      /\ \A t \in TagsAmong(side) :
                           (\A m \in 1..Len(tops) : tops[m].tag # t)
                             => TagCount(side, t) <= tops[k].count
        /\ \A i \in 1..Len(es) :
             \A j \in (i + 1)..Len(es) :
               ~RatioLess(es[i].value_score, es[j].value_score)

\* two fights returned, the second of a strictly lower value_score and ahead
\* of the first in the store's order; an underdog side with more than three
\* tags, and a favorite side carrying a tag the underdog side does not
C9_TwoUnderdogsRanked ==
  /\ IsUnderdogReply
  /\ LET fs == FightsOfReply(result)
         es == result.ret.underdog_picks
     IN  /\ Len(es) >= 2
         /\ RatioLess(es[2].value_score, es[1].value_score)
         /\ FightIdx(fs, es[2]) < FightIdx(fs, es[1])
         /\ \E i \in 1..Len(es) :
              LET na == SideCount(FightOf(fs, es[i]), "a")
                  nb == SideCount(FightOf(fs, es[i]), "b")
                  under == SidePicks(FightOf(fs, es[i]), IF na < nb THEN "a" ELSE "b")
                  fav == SidePicks(FightOf(fs, es[i]), IF na < nb THEN "b" ELSE "a")
              IN  /\ Len(es[i].top_tags) = 3
                  /\ Cardinality(TagsAmong(under)) > 3
                  /\ \E i2 \in 1..Len(es) :
                       LET na2 == SideCount(FightOf(fs, es[i2]), "a")
                           nb2 == SideCount(FightOf(fs, es[i2]), "b")
                       IN  TagsAmong(SidePicks(FightOf(fs, es[i2]),
                                               IF na2 < nb2 THEN "b" ELSE "a"))
                             \ TagsAmong(SidePicks(FightOf(fs, es[i2]),
                                                   IF na2 < nb2 THEN "a" ELSE "b"))
                             # { }

\* C10: every fight returned by get_inside_distance_picks has at least 3 picks
\* whose method_prediction is a finish (KO/TKO, Submission, KO, TKO, Sub), so
\* a fight with only 2 is never returned; the list is in non-increasing order
\* of finish_prediction_count.
C10_InsideDistanceThreshold ==
  IsInsideReply =>
    LET fs == FightsOfReply(result)
        es == result.ret.inside_distance_picks
    IN  /\ \A i \in 1..Len(es) :
             /\ Cardinality(FinishPicks(FightOf(fs, es[i]))) >= 3
             /\ es[i].total_finish_predictions
                  = Cardinality(FinishPicks(FightOf(fs, es[i])))
        /\ \A k \in 1..Len(fs) :
             Cardinality(FinishPicks(fs[k])) = 2 => ~Listed(es, fs[k])
        /\ \A i \in 1..Len(es) :
             \A j \in (i + 1)..Len(es) :
               es[i].finish_prediction_count >= es[j].finish_prediction_count

\* a fight with exactly 3 finish picks is returned, a fight of the same event
\* with exactly 2 (both classified) is not, and the sort moved a fight ahead
C10_TwoFinishPicksLeftOut ==
  /\ IsInsideReply
  /\ LET fs == FightsOfReply(result)
         es == result.ret.inside_distance_picks
     IN  /\ \E i \in 1..Len(es) : es[i].total_finish_predictions = 3
         /\ \E k \in 1..Len(fs) :
              /\ Cardinality(FinishPicks(fs[k])) = 2
              /\ FinishPicks(fs[k]) \subseteq (SidePicks(fs[k], "a") \cup SidePicks(fs[k], "b"))
              /\ ~Listed(es, fs[k])
         /\ Len(es) >= 2
         /\ es[1].finish_prediction_count > es[2].finish_prediction_count
         /\ FightIdx(fs, es[1]) > FightIdx(fs, es[2])

(***************************************************************************)
(* Properties of answer_question (SpecBot)                                 *)
(***************************************************************************)

\* C1: answer_question returns a result {answer, metadata} for every question
\* and every behaviour of the store and of the model: an exception of a store
\* read or of the model call never leaves answer_question.
C1_AlwaysAnswers ==
  result.op = "answer_question" =>
    /\ ~result.outcome.raised
    /\ DOMAIN result.outcome.value = { "answer", "metadata" }

\* the model call raised while answering "hello", and the exception left
\* answer_question
C1_ModelErrorLeaves ==
  /\ result.op = "answer_question"
  /\ result.question = AskHello
  /\ result.response.failed
  /\ result.outcome = Raise("APIError")

(***************************************************************************)
(* Properties of get_inside_distance_picks, continued (SpecEvent)          *)
(***************************************************************************)

\* the finish picks of the fight that classification puts on the side
FinishSide(fight, side) == FinishPicks(fight) \cap SidePicks(fight, side)

\* the methods of the stored picks ids, in the order the store returns them
RECURSIVE MethodsInOrder(_, _)
MethodsInOrder(ids, i) ==
  IF i > Len(analyst_picks) THEN << >>
  ELSE (IF i \in ids THEN << [method |-> analyst_picks[i].method_prediction] >> ELSE << >>)
         \o MethodsInOrder(ids, i + 1)

\* C11: for every fight returned by get_inside_distance_picks, favored_fighter
\* is the side with more finish picks classified to it (fighter_a on a tie),
\* finish_prediction_count is the number of finish picks on that side, and
\* methods has exactly one entry per such pick, so that its length is
\* finish_prediction_count, which lies between 1 and total_finish_predictions.
C11_FavoredSideAndMethods ==
  IsInsideReply =>
    LET fs == FightsOfReply(result)
        es == result.ret.inside_distance_picks
    IN  \A i \in 1..Len(es) :
          LET fight == FightOf(fs, es[i])
              ids_a == FinishSide(fight, "a")
              ids_b == FinishSide(fight, "b")
              favored_ids == IF Cardinality(ids_a) >= Cardinality(ids_b) THEN ids_a ELSE ids_b
          IN  /\ es[i].favored_fighter
                   = (IF Cardinality(ids_a) >= Cardinality(ids_b)
                        THEN fight.fighter_a ELSE fight.fighter_b)
              /\ es[i].finish_prediction_count = Cardinality(favored_ids)
              /\ es[i].methods = MethodsInOrder(favored_ids, 1)
              /\ Len(es[i].methods) = es[i].finish_prediction_count
              /\ es[i].finish_prediction_count >= 1
              /\ es[i].finish_prediction_count <= es[i].total_finish_predictions

\* one returned fight has as many finish picks on either side and fighter_a
\* favored, another has fighter_b favored with fewer finish picks than the
\* fight's total
C11_TieAndFavoredBSeen ==
  /\ IsInsideReply
  /\ LET fs == FightsOfReply(result)
         es == result.ret.inside_distance_picks
     IN  /\ \E i \in 1..Len(es) :
              /\ Cardinality(FinishSide(FightOf(fs, es[i]), "a"))
                   = Cardinality(FinishSide(FightOf(fs, es[i]), "b"))
              /\ es[i].favored_fighter = es[i].fighter_a
         /\ \E j \in 1..Len(es) :
              /\ es[j].favored_fighter = es[j].fighter_b
              /\ es[j].finish_prediction_count < es[j].total_finish_predictions
              /\ Len(es[j].methods) = es[j].finish_prediction_count

(***************************************************************************)
(* Properties of aggregate_fight_context, continued (Spec)                 *)
(***************************************************************************)

FightStored(fight_id) == \E i \in 1..Len(fights) : fights[i].fight_id = fight_id

\* a fight_id that no row of fights has
AbsentFightId == Len(fights) + 1

\* C12: aggregate_fight_context(fight_id) returns null for a stored fight with
\* zero picks, and that value differs from what it returns for a fight that is
\* not found, so that the caller can tell the two cases apart.
C12_NoPicksDistinctFromNotFound ==
  ( /\ result.op = "aggregate_fight_context"
    /\ FightStored(result.fight_id)
    /\ StoredCount([fight_id |-> result.fight_id]) = 0 )
  => /\ result.ret = NoneRet
     /\ result.ret # aggregate_fight_context(AbsentFightId, NoneRet)

\* aggregate_fight_context returned null for a stored fight without picks, and
\* null is also what it returns for a fight_id that is not stored
C12_SameNullForBoth ==
  /\ result.op = "aggregate_fight_context"
  /\ FightStored(result.fight_id)
  /\ StoredCount([fight_id |-> result.fight_id]) = 0
  /\ result.ret = NoneRet
  /\ ~FightStored(AbsentFightId)
  /\ aggregate_fight_context(AbsentFightId, NoneRet) = NoneRet

(***************************************************************************)
(* Properties of answer_question, continued (SpecBot)                      *)
(***************************************************************************)

NoStoreFault(reply) ==
  ~reply.faults.classify /\ ~reply.faults.lookup /\ ~reply.faults.aggregate

\* a request answered without a failing store read, and what it was classified as
IsAnswered == result.op = "answer_question" /\ NoStoreFault(result)

DetectedOf(reply) == detect_query_type(reply.question, FALSE).value

EventIntents == { "inside_distance", "consensus_picks", "underdogs" }

\* the list of qualifying fights the aggregation of an event intent returns
QualifyingOf(query_type, event_name) ==
  IF query_type = "inside_distance"
    THEN get_inside_distance_picks(event_name).inside_distance_picks
  ELSE IF query_type = "consensus_picks"
    THEN get_event_consensus_picks(event_name).consensus_picks
  ELSE get_event_underdogs(event_name).underdog_picks

\* the event or fight the request is about is not in the store
EntityAbsent(d) ==
  IF d.query_type \in EventIntents
    THEN ~Missing(d.details.event_name) /\ _get_event(d.details.event_name.text) = NoneRet
  ELSE d.query_type = "fight_specific"
         /\ get_fight_by_fighters(d.details.fighter_a, d.details.fighter_b,
                                  d.details.event_name, FALSE) = NoneRet

\* the event or fight is in the store and has zero qualifying picks
EntityWithoutData(d) ==
  IF d.query_type \in EventIntents
    THEN /\ ~Missing(d.details.event_name)
         /\ _get_event(d.details.event_name.text) # NoneRet
         /\ QualifyingOf(d.query_type, d.details.event_name.text) = << >>
  ELSE /\ d.query_type = "fight_specific"
       /\ LET fight == get_fight_by_fighters(d.details.fighter_a, d.details.fighter_b,
                                             d.details.event_name, FALSE)
          IN  fight # NoneRet /\ StoredCount(fight) = 0

\* an ordinary result whose answer is a template of the bot, not the model's text
IsTemplated(outcome) ==
  /\ ~outcome.raised
  /\ "lit" \in DOMAIN outcome.value.answer[1]
  /\ "cost_estimate" \notin DOMAIN outcome.value.metadata

NotFoundTypes == { "fight_not_found", "event_not_found" }

\* the answers of the intents when the model was asked
AnalysisTypes ==
  { "fight_analysis", "inside_distance", "consensus_picks", "underdogs", "general" }

\* C13: for each of the four data intents, answer_question returns a NotFound
\* answer when the event or fight is absent and a different NoData answer when
\* the entity exists but has zero qualifying picks; the two differ in message
\* and in metadata.query_type, and both are ordinary results, not exceptions.
C13_NotFoundAndNoDataAnswers ==
  IsAnswered =>
    LET d == DetectedOf(result)
    IN  /\ EntityAbsent(d) =>
             /\ IsTemplated(result.outcome)
             /\ result.outcome.value.metadata.query_type \in NotFoundTypes
        /\ EntityWithoutData(d) =>
             /\ IsTemplated(result.outcome)
             /\ result.outcome.value.metadata.query_type \notin NotFoundTypes
             /\ result.outcome.value.metadata.query_type \notin AnalysisTypes

\* the event of an inside_distance question is stored and no fight of it has
\* enough finish picks, and the request went on to the model: its outcome is
\* the model's answer typed inside_distance, or the model call's exception
C13_InsideDistanceWithoutDataAsksModel ==
  /\ IsAnswered
  /\ DetectedOf(result).query_type = "inside_distance"
  /\ EntityWithoutData(DetectedOf(result))
  /\ \/ result.outcome = Raise("APIError")
     \/ /\ ~result.outcome.raised
        /\ result.outcome.value.metadata.query_type = "inside_distance"
        /\ "cost_estimate" \in DOMAIN result.outcome.value.metadata

(***************************************************************************)
(* Specification SpecRequest: one answer_question request, step by step.   *)
(* The request in progress is held in result: its stage, the steps taken   *)
(* so far and what each step produced.                                     *)
(***************************************************************************)

\* the steps of a request, in the order of the statements of answer_question,
\* of the handlers and of _call_claude
StepOrder == << "classify", "aggregate", "build_prompt", "call_model", "estimate_cost" >>

\* line 679: answer_question(user_question) is entered
NewRequest(user_question, faults, response) ==
  [op |-> "request", question |-> user_question, faults |-> faults,
   response |-> response, stage |-> "received", steps |-> << >>,
   detected |-> NoneRet, context |-> NoneRet, fight |-> NoneRet,
   prompt |-> NoneRet, cost |-> NoneRet, outcome |-> NoneRet]

\* the request leaves answer_question with the outcome
Finished(request, step, outcome) ==
  [request EXCEPT !.stage = "done", !.steps = Append(@, step), !.outcome = outcome]

\* line 680: query_type, details = self.detect_query_type(user_question)
Classified(request, detected) ==
  IF detected.raised THEN Finished(request, "classify", detected)
  ELSE [request EXCEPT !.stage = "classified", !.steps = Append(@, "classify"),
                       !.detected = detected.value]

\* the aggregation of a handler ended the request with an answer, or produced
\* the context the prompt is built from
Ended(outcome) == [ended |-> TRUE, outcome |-> outcome]

Proceed(context, fight) == [ended |-> FALSE, context |-> context, fight |-> fight]

\* A variant of the check of the event's context below: a missing context
\* is passed on to the prompt.
EventContextStepNoCheck(query_type, event_name, context, response) ==
  Proceed(context, NoneRet)

\* lines 742-747, 762-772, 786-796: what the handler does with the context
EventContextStep(query_type, event_name, context, response) ==
  IF context = NoneRet THEN Ended(EventNotFoundAnswer(event_name))
  ELSE IF query_type = "consensus_picks" /\ context.consensus_picks = << >>
    THEN Ended(ConsensusAnswer(event_name, context, response))
  ELSE IF query_type = "underdogs" /\ context.underdog_picks = << >>
    THEN Ended(UnderdogsAnswer(event_name, context, response))
  ELSE Proceed(context, NoneRet)

\* the optimizer call of the handler of an event intent
EventContextOf(query_type, event_name) ==
  IF query_type = "inside_distance" THEN get_inside_distance_picks(event_name)
  ELSE IF query_type = "consensus_picks" THEN get_event_consensus_picks(event_name)
  ELSE get_event_underdogs(event_name)

\* lines 736-747, 756-772, 780-796: the handler of an event intent up to the prompt
EventStep(detected, faults, response) ==
  IF Missing(detected.details.event_name) \/ faults.aggregate
    THEN Ended(Handle(Ok(detected), faults, response))
    ELSE EventContextStep(detected.query_type, detected.details.event_name.text,
                          EventContextOf(detected.query_type,
                                         detected.details.event_name.text),
                          response)

\* lines 715-724 of _handle_fight_specific
FightContextStep(fight, context, response) ==
  IF context = NoneRet \/ context.summary.total_predictions = 0
    THEN Ended(FightContextAnswer(fight, context, response))
    ELSE Proceed(context, fight)

\* lines 704-715 of _handle_fight_specific
FightStep(fa, fb, fight, faults, response) ==
  IF fight = NoneRet \/ faults.aggregate
    THEN Ended(FightFoundAnswer(fa, fb, fight, faults, response))
    ELSE FightContextStep(fight, aggregate_fight_context(fight.fight_id, fight), response)

\* the handler of the request's intent, up to its prompt
AggregateStep(detected, faults, response) ==
  IF detected.query_type = "fight_specific"
    THEN FightStep(detected.details.fighter_a, detected.details.fighter_b,
                   get_fight_by_fighters(detected.details.fighter_a,
                                         detected.details.fighter_b,
                                         detected.details.event_name, faults.lookup),
                   faults, response)
    ELSE EventStep(detected, faults, response)

Aggregated(request, step) ==
  IF step.ended THEN Finished(request, "aggregate", step.outcome)
  ELSE [request EXCEPT !.stage = "aggregated", !.steps = Append(@, "aggregate"),
                       !.context = step.context, !.fight = step.fight]

\* the prompt builder each handler calls (lines 726, 748, 774, 798, 806)
BuilderOf(query_type) ==
  IF query_type = "fight_specific" THEN "build_fight_analysis_prompt"
  ELSE IF query_type = "inside_distance" THEN "build_inside_distance_prompt"
  ELSE IF query_type = "consensus_picks" THEN "build_consensus_picks_prompt"
  ELSE IF query_type = "underdogs" THEN "build_underdogs_prompt"
  ELSE "build_general_prompt"

Prompted(request) ==
  [request EXCEPT !.stage = "prompted", !.steps = Append(@, "build_prompt"),
                  !.prompt = [builder |-> BuilderOf(request.detected.query_type),
                              context |-> request.context,
                              question |-> request.question]]

\* lines 692-696: self.client.messages.create(...)
ModelCalled(request) ==
  IF request.response.failed THEN Finished(request, "call_model", Raise("APIError"))
  ELSE [request EXCEPT !.stage = "called", !.steps = Append(@, "call_model")]

\* line 697: cost = self._estimate_cost(response.usage)
CostEstimated(request) ==
  [request EXCEPT !.stage = "costed", !.steps = Append(@, "estimate_cost"),
                  !.cost = _estimate_cost(request.response.usage)]

\* the metadata.query_type of an answer of the model, per handler
AnsweredTypeOf(query_type) ==
  IF query_type = "fight_specific" THEN "fight_analysis" ELSE query_type

\* the return statement of the handler after _call_claude (lines 728-735,
\* 750-753, 776-779, 800-803, 808-811)
Returned(request) ==
  [request EXCEPT
     !.stage = "done",
     !.outcome =
       IF request.detected.query_type = "fight_specific"
         THEN Reply(<< Txt(request.response.text) >>,
                    [query_type |-> "fight_analysis", fight |-> request.fight,
                     cost_estimate |-> request.cost])
         ELSE Reply(<< Txt(request.response.text) >>,
                    [query_type |-> AnsweredTypeOf(request.detected.query_type),
                     cost_estimate |-> request.cost])]

Step(request) ==
  /\ result' = request
  /\ UNCHANGED << events, fights, analyst_picks, pick_tags, hash_seed >>
  /\ UNCHANGED pages

InStage(stage) == result.op = "request" /\ result.stage = stage

ReceiveQuestion ==
  /\ result = NoResult
  /\ \E user_question \in Questions, faults \in StoreFaults, response \in ModelResponses :
       Step(NewRequest(user_question, faults, response))

Classify ==
  /\ InStage("received")
  /\ Step(Classified(result, detect_query_type(result.question, result.faults.classify)))

Aggregate ==
  /\ InStage("classified")
  /\ result.detected.query_type # "general"
  /\ Step(Aggregated(result, AggregateStep(result.detected, result.faults, result.response)))

BuildPrompt ==
  /\ \/ InStage("aggregated")
     \/ InStage("classified") /\ result.detected.query_type = "general"
  /\ Step(Prompted(result))

CallModel ==
  /\ InStage("prompted")
  /\ Step(ModelCalled(result))

EstimateCost ==
  /\ InStage("called")
  /\ Step(CostEstimated(result))

ReturnAnswer ==
  /\ InStage("costed")
  /\ Step(Returned(result))

\* the chat page has shown the answer (or the error) of the request
RequestConsumed ==
  /\ InStage("done")
  /\ result' = NoResult
  /\ UNCHANGED << events, fights, analyst_picks, pick_tags, hash_seed >>
  /\ UNCHANGED pages

NextRequest ==
  \/ ReceiveQuestion
  \/ Classify
  \/ Aggregate
  \/ BuildPrompt
  \/ CallModel
  \/ EstimateCost
  \/ ReturnAnswer
  \/ RequestConsumed

SpecRequest == InitBot /\ [][NextRequest]_vars

(***************************************************************************)
(* Properties of the steps of a request (SpecRequest)                      *)
(***************************************************************************)

StepRank(step) == CHOOSE i \in 1..Len(StepOrder) : StepOrder[i] = step

StepTaken(request, step) == \E i \in 1..Len(request.steps) : request.steps[i] = step

ModelCalls(request) ==
  Cardinality({ i \in 1..Len(request.steps) : request.steps[i] = "call_model" })

\* the aggregation had no context to give: the event name is missing, or the
\* event or fight is not in the store
NoContext(request) ==
  /\ request.detected # NoneRet
  /\ request.detected.query_type # "general"
  /\ ~request.faults.lookup
  /\ ~request.faults.aggregate
  /\ \/ EntityAbsent(request.detected)
     \/ /\ request.detected.query_type \in EventIntents
        /\ Missing(request.detected.details.event_name)

\* a finished request gives what answer_question gives in one piece
RequestMatchesAnswerQuestion ==
  InStage("done") =>
    result.outcome = answer_question(result.question, result.faults, result.response)

\* C14: within one request the steps occur in the order Classify, Aggregate,
\* Build Prompt, Call Model, Estimate Cost; when aggregation yields no context
\* the request ends with a templated answer and the model is never called; the
\* model is called at most once; a returned result has metadata.cost_estimate
\* exactly when the model was called.
C14_StepOrderAndSingleModelCall ==
  result.op = "request" =>
    /\ \A i \in 1..Len(result.steps) :
         \A j \in (i + 1)..Len(result.steps) :
           StepRank(result.steps[i]) < StepRank(result.steps[j])
    /\ StepTaken(result, "call_model") => StepTaken(result, "build_prompt")
    /\ StepTaken(result, "estimate_cost") => StepTaken(result, "call_model")
    /\ StepTaken(result, "build_prompt") => StepTaken(result, "classify")
    /\ ModelCalls(result) <= 1
    /\ (result.stage = "done" /\ NoContext(result)) =>
         /\ IsTemplated(result.outcome)
         /\ ModelCalls(result) = 0
         /\ ~StepTaken(result, "build_prompt")
    /\ (result.stage = "done" /\ ~result.outcome.raised) =>
         ("cost_estimate" \in DOMAIN result.outcome.value.metadata
            <=> ModelCalls(result) = 1)
    /\ RequestMatchesAnswerQuestion

\* a request about a stored fight with picks went through all five steps and
\* returned the model's answer with its cost
C14_AllFiveStepsTaken ==
  /\ InStage("done")
  /\ result.steps = StepOrder
  /\ result.detected.query_type = "fight_specific"
  /\ ~result.outcome.raised
  /\ result.outcome.value.metadata.cost_estimate = _estimate_cost(result.response.usage)

(***************************************************************************)
(* Specification SpecLookup: detect_query_type and get_fight_by_fighters,  *)
(* over questions that match several keyword sets, and over stores whose   *)
(* events are dated or not and whose fights list the same pair of fighters *)
(* in either order                                                         *)
(***************************************************************************)

AskWhoWillWin ==
  << "W", "h", "o", " ", "w", "i", "l", "l", " ", "w", "i", "n", " ", "J", "o", "n", "e", "s", " ", "v", "s", " ", "A", "s", "p", "i", "n", "a", "l", "l", "?" >>

AskUnderdogs310 ==
  << "b", "e", "s", "t", " ", "u", "n", "d", "e", "r", "d", "o", "g", " ", "p", "i", "c", "k", "s", " ", "f", "o", "r", " ", "U", "F", "C", " ", "3", "1", "0" >>

AskUnderdogKnockout ==
  << "u", "n", "d", "e", "r", "d", "o", "g", " ", "k", "n", "o", "c", "k", "o", "u", "t", " ", "i", "n", " ", "J", "o", "n", "e", "s", " ", "v", "s", " ", "A", "s", "p", "i", "n", "a", "l", "l" >>

AskConsensusUpset ==
  << "c", "o", "n", "s", "e", "n", "s", "u", "s", " ", "o", "r", " ", "u", "p", "s", "e", "t", " ", "a", "t", " ", "U", "F", "C", " ", "V", "e", "g", "a", "s", " ", "1", "0", "0" >>

AskUpsetFight ==
  << "u", "p", "s", "e", "t", " ", "i", "n", " ", "J", "o", "n", "e", "s", " ", "v", "s", " ", "A", "s", "p", "i", "n", "a", "l", "l" >>

AskLocksFightNight ==
  << "L", "o", "c", "k", "s", " ", "f", "o", "r", " ", "U", "F", "C", " ", "F", "i", "g", "h", "t", " ", "N", "i", "g", "h", "t", " ", "5", "0", "?" >>

AskFavoritesFight ==
  << "f", "a", "v", "o", "r", "i", "t", "e", "s", " ", "J", "o", "n", "e", "s", " ", "v", " ", "A", "s", "p", "i", "n", "a", "l", "l" >>

AskAgainst ==
  << "A", "d", "e", "s", "a", "n", "y", "a", " ", "a", "g", "a", "i", "n", "s", "t", " ", "P", "e", "r", "e", "i", "r", "a" >>

AskKnockout ==
  << "a", "n", "y", " ", "k", "n", "o", "c", "k", "o", "u", "t", " ", "c", "o", "m", "i", "n", "g" >>

AskSleeper ==
  << "S", "l", "e", "e", "p", "e", "r", " ", "p", "i", "c", "k", "s" >>

DetectQuestions ==
  Questions \cup
  { AskWhoWillWin,
    AskUnderdogs310,
    AskUnderdogKnockout,
    AskConsensusUpset,
    AskUpsetFight,
    AskLocksFightNight,
    AskFavoritesFight,
    AskAgainst,
    AskKnockout,
    AskSleeper }

UfcVegas100 == << "U", "F", "C", " ", "V", "e", "g", "a", "s", " ", "1", "0", "0" >>

UfcFightNight50 == << "U", "F", "C", " ", "F", "i", "g", "h", "t", " ", "N", "i", "g", "h", "t", " ", "5", "0" >>

HintJones == << "J", "o", "n", "e", "s" >>

HintAspinall == << "A", "s", "p", "i", "n", "a", "l", "l" >>

HintHolloway == << "h", "o", "l", "l", "o", "w", "a", "y" >>

HintTopuria == << "T", "o", "p", "u", "r", "i", "a" >>

HintWinJones == << "W", "i", "n", " ", "J", "o", "n", "e", "s" >>

Adesanya == << "A", "d", "e", "s", "a", "n", "y", "a" >>

Pereira == << "P", "e", "r", "e", "i", "r", "a" >>

\* an event saved without a date, after the dated ones
UndatedEvent == [event_id |-> 3, name |-> UfcVegas100, date |-> NoDate]

\* the pair of fight 1 again, listed in the same order, at the newer event
RematchSameOrder ==
  [fight_id |-> 5, event_id |-> 2, fighter_a |-> JonJones, fighter_b |-> TomAspinall]

\* the pair of fight 3 again at the undated event
RematchUndated ==
  [fight_id |-> 5, event_id |-> 3, fighter_a |-> MaxHolloway, fighter_b |-> IliaTopuria]

\* stores the ingestion workflow can have produced: no event yet; the seeded
\* events and fights; the events saved in the other order; a rematch in the
\* same order of fighters; an event without a date
LookupStores ==
  { [events |-> << >>, fights |-> << >>],
    [events |-> SeedEvents, fights |-> SeedFights],
    [events |-> Reverse(SeedEvents), fights |-> SeedFights],
    [events |-> SeedEvents, fights |-> Append(SubSeq(SeedFights, 1, 3), RematchSameOrder)],
    [events |-> Append(SeedEvents, UndatedEvent), fights |-> Append(SeedFights, RematchUndated)] }

FighterHints == { HintJones, HintAspinall, HintHolloway, HintTopuria, HintWinJones }

EventOptions == { NoneRet, Some(HintUfc310Lower), Some(Ufc309), Some(HintUfc999) }

\* a call detect_query_type(question)
DetectQueryType(question, read_raises) ==
  /\ result' = [op |-> "detect_query_type", question |-> question,
                read_raises |-> read_raises,
                outcome |-> detect_query_type(question, read_raises)]
  /\ UNCHANGED << events, fights, analyst_picks, pick_tags, hash_seed >>
  /\ UNCHANGED pages

\* a call get_fight_by_fighters(fighter_a_hint, fighter_b_hint, event_name)
GetFightByFighters(fighter_a_hint, fighter_b_hint, event_opt, read_raises) ==
  /\ result' = [op |-> "get_fight_by_fighters",
                fighter_a_hint |-> fighter_a_hint, fighter_b_hint |-> fighter_b_hint,
                event_name |-> event_opt, read_raises |-> read_raises,
                ret |-> get_fight_by_fighters(fighter_a_hint, fighter_b_hint,
                                              event_opt, read_raises)]
  /\ UNCHANGED << events, fights, analyst_picks, pick_tags, hash_seed >>
  /\ UNCHANGED pages

InitLookup ==
  /\ \E store \in LookupStores : events = store.events /\ fights = store.fights
  /\ StoreHolds(<< >>)
  /\ hash_seed = 0
  /\ PagesIdle
  /\ result = NoResult

CallDetectQueryType ==
  /\ result = NoResult
  /\ \E question \in DetectQuestions, read_raises \in BOOLEAN :
       DetectQueryType(question, read_raises)

CallGetFightByFighters ==
  /\ result = NoResult
  /\ \E fighter_a_hint \in FighterHints, fighter_b_hint \in FighterHints,
        event_opt \in EventOptions, read_raises \in BOOLEAN :
       GetFightByFighters(fighter_a_hint, fighter_b_hint, event_opt, read_raises)

NextLookup ==
  \/ CallDetectQueryType
  \/ CallGetFightByFighters
  \/ ReplyConsumed

SpecLookup == InitLookup /\ [][NextLookup]_vars

(***************************************************************************)
(* Properties of detect_query_type and get_fight_by_fighters (SpecLookup)  *)
(***************************************************************************)

IsDetected == result.op = "detect_query_type" /\ ~result.outcome.raised

\* the intents, from the highest priority to the lowest
IntentPriority ==
  << "inside_distance", "consensus_picks", "underdogs", "fight_specific", "general" >>

IntentRank(t) == CHOOSE i \in 1..Len(IntentPriority) : IntentPriority[i] = t

\* the intents whose rule the lower-cased question q matches
MatchingIntents(q) ==
  { "general" }
    \cup (IF \E i \in 1..Len(InsideDistanceKeywords) : Contains(q, InsideDistanceKeywords[i])
            THEN { "inside_distance" } ELSE { })
    \cup (IF \E i \in 1..Len(ConsensusKeywords) : Contains(q, ConsensusKeywords[i])
            THEN { "consensus_picks" } ELSE { })
    \cup (IF \E i \in 1..Len(UnderdogKeywords) : Contains(q, UnderdogKeywords[i])
            THEN { "underdogs" } ELSE { })
    \cup (IF \E i \in 1..Len(Separators) : Contains(q, Separators[i])
            THEN { "fight_specific" } ELSE { })

\* C15: detect_query_type applies the rule sets in the priority order
\* inside_distance > consensus_picks > underdogs > fight_specific > general
\* and the first matching set wins; a question matching no keyword set and no
\* separator is general with empty parameters.
C15_FirstMatchingIntentWins ==
  IsDetected =>
    LET matching == MatchingIntents(Lower(result.question))
        query_type == result.outcome.value.query_type
    IN  /\ query_type \in matching
        /\ \A m \in matching : IntentRank(query_type) <= IntentRank(m)
        /\ matching = { "general" } =>
             /\ query_type = "general"
             /\ result.outcome.value.details = << >>
        /\ result.question = AskUnderdogKnockout => query_type = "inside_distance"
        /\ result.question = AskConsensusUpset => query_type = "consensus_picks"
        /\ result.question = AskUpsetFight => query_type = "underdogs"
        /\ result.question = AskFavoritesFight => query_type = "consensus_picks"

\* a question with a finish keyword, an underdog keyword and "X vs Y" was
\* classified inside_distance
C15_FinishBeatsUnderdogAndFight ==
  /\ IsDetected
  /\ { "inside_distance", "underdogs", "fight_specific" }
       \subseteq MatchingIntents(Lower(result.question))
  /\ result.outcome.value.query_type = "inside_distance"

\* questions "<leading words> X vs Y<punctuation>" with single-word names
FightFormQuestions == { AskJonesAspinall, AskWhoWins, AskWhoWillWin }

\* C16: for a question "<leading words> X vs Y<punctuation>" with single-word
\* names and no higher-priority keyword, such as "Who will win Jones vs
\* Aspinall?", detect_query_type returns fight_specific with fighter_a =
\* "Jones" and fighter_b = "Aspinall".
C16_FighterNamesExtracted ==
  (IsDetected /\ result.question \in FightFormQuestions) =>
    /\ result.outcome.value.query_type = "fight_specific"
    /\ result.outcome.value.details.fighter_a = HintJones
    /\ result.outcome.value.details.fighter_b = HintAspinall

\* "Who will win Jones vs Aspinall?" was classified fight_specific with
\* fighter_a "Win Jones"
C16_LeadingWordInFighterA ==
  /\ IsDetected
  /\ result.question = AskWhoWillWin
  /\ result.outcome.value.query_type = "fight_specific"
  /\ result.outcome.value.details.fighter_a = HintWinJones
  /\ result.outcome.value.details.fighter_b = HintAspinall

\* the questions of the event intents that name an event, and the name
EventPatternQuestions ==
  { [question |-> AskConsensus309, event_name |-> Ufc309],
    [question |-> AskUnderdogs309, event_name |-> Ufc309],
    [question |-> AskFinish309, event_name |-> Ufc309],
    [question |-> AskBestBets999, event_name |-> HintUfc999],
    [question |-> AskUnderdogs310, event_name |-> Ufc310],
    [question |-> AskConsensusUpset, event_name |-> UfcVegas100],
    [question |-> AskLocksFightNight, event_name |-> UfcFightNight50] }

\* the questions of the event intents that name no event
FallbackQuestions ==
  { AskTopPicks, AskUnderdogKnockout, AskUpsetFight, AskFavoritesFight,
    AskKnockout, AskSleeper }

\* the stored event with the latest date
MostRecentEvent ==
  events[CHOOSE i \in 1..Len(events) :
           /\ events[i].date # NoDate
           /\ \A j \in 1..Len(events) : events[j].date <= events[i].date]

\* C17: for the event intents the extracted event_name is "UFC <N>" ("UFC
\* Vegas <N>", "UFC Fight Night <N>") when the question contains that pattern,
\* without a store read; otherwise it is the name of the most recent event by
\* date in the store (one store read), or none when the store has no events.
\* "best underdog picks for UFC 310" is underdogs with event_name "UFC 310".
C17_EventNameExtracted ==
  result.op = "detect_query_type" =>
    /\ \A e \in EventPatternQuestions :
         result.question = e.question =>
           /\ ~result.outcome.raised
           /\ result.outcome.value.query_type \in EventIntents
           /\ result.outcome.value.details.event_name = Some(e.event_name)
    /\ result.question = AskUnderdogs310 =>
         result.outcome.value.query_type = "underdogs"
    /\ result.question \in FallbackQuestions =>
         IF result.read_raises THEN result.outcome.raised
         ELSE /\ ~result.outcome.raised
              /\ result.outcome.value.query_type \in EventIntents
              /\ result.outcome.value.details.event_name
                   = (IF events = << >> THEN NoneRet ELSE Some(MostRecentEvent.name))

\* the question names no event, the store holds dated events and one event
\* without a date, and the event without a date was taken
C17_UndatedEventTaken ==
  /\ IsDetected
  /\ result.question \in FallbackQuestions
  /\ \E i \in 1..Len(events) : events[i].date # NoDate
  /\ \E i \in 1..Len(events) :
       /\ events[i].date = NoDate
       /\ result.outcome.value.details.event_name = Some(events[i].name)

\* the stored fights that match the two hints in either ordering
MatchingFights(hint_a, hint_b) ==
  { i \in 1..Len(fights) :
      \/ /\ ILikeContains(fights[i].fighter_a, hint_a)
         /\ ILikeContains(fights[i].fighter_b, hint_b)
      \/ /\ ILikeContains(fights[i].fighter_a, hint_b)
         /\ ILikeContains(fights[i].fighter_b, hint_a) }

\* the name of the fight's event contains the hint, case-insensitively
InHintedEvent(i, event_hint) ==
  Contains(Lower(EventNameOf(EventOfFight(fights[i]))), Lower(event_hint))

IsFightLookup == result.op = "get_fight_by_fighters" /\ ~result.read_raises

\* C18: get_fight_by_fighters returns null iff no stored fight matches the two
\* hints in either ordering; with an eventHint, if some matching fight (in
\* either ordering) belongs to an event whose name contains the hint, the
\* returned fight belongs to such an event; without an eventHint the returned
\* fight is the most recent by event date among all matching fights.
C18_FightResolvedOverBothOrderings ==
  IsFightLookup =>
    LET matching == MatchingFights(result.fighter_a_hint, result.fighter_b_hint)
    IN  /\ result.ret = NoneRet <=> matching = { }
        /\ ( /\ ~Missing(result.event_name)
             /\ \E i \in matching : InHintedEvent(i, result.event_name.text) )
           => /\ result.ret # NoneRet
              /\ Contains(Lower(result.ret.event), Lower(result.event_name.text))
        /\ (Missing(result.event_name) /\ matching # { })
           => \A i \in matching : EventDate(fights[i]) <= result.ret.date

\* with the hints Jones, Aspinall and the event hint "ufc 310", the fight
\* Jon Jones vs Tom Aspinall of UFC 309 was returned although Tom Aspinall vs
\* Jon Jones of UFC 310 is stored
C18_SwappedOrderingNotSearched ==
  /\ IsFightLookup
  /\ result.fighter_a_hint = HintJones
  /\ result.fighter_b_hint = HintAspinall
  /\ result.event_name = Some(HintUfc310Lower)
  /\ result.ret # NoneRet
  /\ result.ret.event = Ufc309
  /\ \E i \in MatchingFights(HintJones, HintAspinall) :
       /\ InHintedEvent(i, HintUfc310Lower)
       /\ fights[i].fighter_a = TomAspinall

(***************************************************************************)
(* Specification SpecContext: aggregate_fight_context over stores whose    *)
(* picks of one fight carry repeated tags, repeated and empty methods and  *)
(* notes; the call repeated on the unchanged store, also after the process *)
(* was restarted                                                           *)
(***************************************************************************)

ContextTagCycle ==
  << << "wrestling", "cardio" >>, << "striking", "cardio" >>, << "reach", "power" >>,
     << "chin", "grappling", "power" >>, << >>, << "youth", "cardio" >> >>

ContextMethodCycle == << "KO/TKO", "Decision", "KO/TKO", "", NULL, "Decision" >>

ContextNoteCycle ==
  << "reach advantage", "better cardio", "more power", "home crowd", NULL, "" >>

\* the k-th element of the cycle, counted from the shift
CycleAt(cycle, k, shift) == cycle[((k + shift - 1) % Len(cycle)) + 1]

\* the picks of fight 1 in the ingested articles: n_a for fighter A, then n_b
\* for fighter B, then n_x that name neither
ContextRows(n_a, n_b, n_x, shift) ==
  [k \in 1..(n_a + n_b + n_x) |->
     PickRow(1, AnalystAt(k),
             IF k <= n_a THEN TextA(1) ELSE IF k <= n_a + n_b THEN TextB(1) ELSE PickXyz,
             CycleAt(ContextMethodCycle, k, shift),
             CycleAt(ContextNoteCycle, k, shift),
             CycleAt(ContextTagCycle, k, shift))]

\* the caller calls aggregate_fight_context(fight_id) again and keeps the
\* value of the call before
AggregateFightContextAgain(fight_id, previous) ==
  /\ result' = [op |-> "aggregate_fight_context", fight_id |-> fight_id,
                ret |-> aggregate_fight_context(fight_id, NoneRet),
                previous |-> previous]
  /\ UNCHANGED << events, fights, analyst_picks, pick_tags, hash_seed >>
  /\ UNCHANGED pages

InitContext ==
  /\ events = SeedEvents
  /\ fights = SeedFights
  /\ hash_seed \in HashSeeds
  /\ PagesIdle
  /\ result = NoResult
  /\ \E n_a \in 0..MaxSide, n_b \in 0..MaxSide, n_x \in 0..MaxUnclear, shift \in 0..2 :
       StoreHolds(ContextRows(n_a, n_b, n_x, shift))

CallAggregateAgain ==
  /\ result.op = "aggregate_fight_context"
  /\ AggregateFightContextAgain(result.fight_id, result.ret)

\* The app's process ends and a new one starts (the app is redeployed or wakes
\* up): the store is as it was, the new interpreter salts its string hashes
\* anew.
ProcessRestarted ==
  /\ hash_seed' \in HashSeeds \ { hash_seed }
  /\ UNCHANGED << events, fights, analyst_picks, pick_tags, result >>
  /\ UNCHANGED pages

NextContext ==
  \/ CallAggregateFightContext
  \/ CallAggregateAgain
  \/ ProcessRestarted
  \/ ReplyConsumed

SpecContext == InitContext /\ [][NextContext]_vars

(***************************************************************************)
(* Properties of the fight context (SpecContext)                           *)
(***************************************************************************)

IsContextReply == result.op = "aggregate_fight_context" /\ result.ret # NoneRet

\* the fight of the reply
ReplyFight(reply) == fights[CHOOSE i \in 1..Len(fights) : fights[i].fight_id = reply.fight_id]

\* where the tag is first met when the picks ids are read in store order and
\* the tags of a pick in the order of its pick_tags rows: the pick, the row
FirstPickWith(pick_ids, tag) ==
  CHOOSE i \in pick_ids :
    /\ TagCount({ i }, tag) > 0
    /\ \A j \in pick_ids : TagCount({ j }, tag) > 0 => i <= j

FirstRowWith(pick_id, tag) ==
  CHOOSE k \in 1..Len(pick_tags) :
    /\ pick_tags[k].pick_id = pick_id /\ pick_tags[k].tag = tag
    /\ \A j \in 1..(k - 1) : ~(pick_tags[j].pick_id = pick_id /\ pick_tags[j].tag = tag)

MetBefore(pick_ids, tag1, tag2) ==
  \/ FirstPickWith(pick_ids, tag1) < FirstPickWith(pick_ids, tag2)
  \/ /\ FirstPickWith(pick_ids, tag1) = FirstPickWith(pick_ids, tag2)
     /\ FirstRowWith(FirstPickWith(pick_ids, tag1), tag1)
          < FirstRowWith(FirstPickWith(pick_ids, tag2), tag2)

\* tag1 with its count comes before tag2 in the ranking of the tags
RankedBefore(pick_ids, tag1, tag2) ==
  \/ TagCount(pick_ids, tag1) > TagCount(pick_ids, tag2)
  \/ /\ TagCount(pick_ids, tag1) = TagCount(pick_ids, tag2)
     /\ MetBefore(pick_ids, tag1, tag2)

\* the non-empty notes of the stored picks ids, in the order of the store
RECURSIVE NotesInOrder(_, _)
NotesInOrder(pick_ids, i) ==
  IF i > Len(analyst_picks) THEN << >>
  ELSE (IF i \in pick_ids /\ Truthy(analyst_picks[i].reasoning_notes)
          THEN << analyst_picks[i].reasoning_notes >> ELSE << >>)
         \o NotesInOrder(pick_ids, i + 1)

TopTagsAsStated(top_tags, pick_ids) ==
  /\ Len(top_tags) <= 5
  /\ Len(top_tags) = Min2(5, Cardinality(TagsAmong(pick_ids)))
  /\ \A i \in 1..Len(top_tags) :
       /\ top_tags[i].tag \in TagsAmong(pick_ids)
       /\ top_tags[i].count = TagCount(pick_ids, top_tags[i].tag)
       /\ \A j \in (i + 1)..Len(top_tags) :
            /\ top_tags[i].count >= top_tags[j].count
            /\ RankedBefore(pick_ids, top_tags[i].tag, top_tags[j].tag)
       /\ \A t \in TagsAmong(pick_ids) \ { top_tags[j].tag : j \in 1..Len(top_tags) } :
            RankedBefore(pick_ids, top_tags[i].tag, t)

MethodsAsStated(methods, pick_ids) ==
  /\ \A i \in 1..Len(methods) :
       /\ Truthy(methods[i].key)
       /\ methods[i].count
            = Cardinality({ p \in pick_ids :
                              analyst_picks[p].method_prediction = methods[i].key })
       /\ \A j \in (i + 1)..Len(methods) : methods[i].key # methods[j].key
  /\ \A p \in pick_ids :
       Truthy(analyst_picks[p].method_prediction) =>
         \E i \in 1..Len(methods) : methods[i].key = analyst_picks[p].method_prediction

SideContextAsStated(context, pick_ids) ==
  /\ TopTagsAsStated(context.top_tags, pick_ids)
  /\ MethodsAsStated(context.methods, pick_ids)
  /\ Len(context.example_rationales) <= 3
  /\ context.example_rationales = Take(NotesInOrder(pick_ids, 1), 3)

\* C19: for each side of aggregate_fight_context, top_tags holds at most 5
\* tags, the most frequent among the side's picks in non-increasing count
\* order, ties in first-encountered order, each with its number of occurrences
\* on the side; methods maps each non-empty method_prediction to the number of
\* the side's picks with it; example_rationales are the first (at most 3)
\* non-empty reasoning notes in pick order.
C19_SideContextAsStated ==
  IsContextReply =>
    /\ SideContextAsStated(result.ret.fighter_a_context, SidePicks(ReplyFight(result), "a"))
    /\ SideContextAsStated(result.ret.fighter_b_context, SidePicks(ReplyFight(result), "b"))

\* side A has more than 5 distinct tags, a tag met later is listed before one
\* met earlier, two listed tags have the same count, a method is counted
\* twice, and a fourth non-empty note was left out
C19_TruncatedAndReordered ==
  /\ IsContextReply
  /\ LET ids == SidePicks(ReplyFight(result), "a")
         context == result.ret.fighter_a_context
     IN  /\ Cardinality(TagsAmong(ids)) > 5
         /\ Len(context.top_tags) = 5
         /\ \E i \in 1..5 : \E j \in (i + 1)..5 :
              MetBefore(ids, context.top_tags[j].tag, context.top_tags[i].tag)
         /\ \E i \in 1..4 : context.top_tags[i].count = context.top_tags[i + 1].count
         /\ \E i \in 1..Len(context.methods) : context.methods[i].count = 2
         /\ Len(NotesInOrder(ids, 1)) > 3
         /\ Len(context.example_rationales) = 3

\* C20: two calls of aggregate_fight_context for the same fight with the store
\* unchanged (same rows, same order) give identical output in every field,
\* the ordered lists top_analysts_a and top_analysts_b included.
C20_RepeatedCallSameOutput ==
  (result.op = "aggregate_fight_context" /\ "previous" \in DOMAIN result) =>
    result.ret = result.previous

\* the call was repeated on the unchanged store after a restart of the
\* process: the same analysts are listed for side A, in another order, and
\* everything else is as before
C20_AnalystOrderChanged ==
  /\ IsContextReply
  /\ "previous" \in DOMAIN result
  /\ result.previous # NoneRet
  /\ result.ret.fight = result.previous.fight
  /\ result.ret.summary = result.previous.summary
  /\ result.ret.fighter_a_context = result.previous.fighter_a_context
  /\ result.ret.fighter_b_context = result.previous.fighter_b_context
  /\ result.ret.analyst_info.top_analysts_a # result.previous.analyst_info.top_analysts_a
  /\ Range(result.ret.analyst_info.top_analysts_a)
       = Range(result.previous.analyst_info.top_analysts_a)


(***************************************************************************)
(* PromptGenerator: the prompt as the sequence of the fragments the        *)
(* f-strings put together (literal text, a text value, a number, a joined  *)
(* list)                                                                   *)
(***************************************************************************)

\* "{n}" of an int
Num(n) == [num |-> n]

\* "sep".join(items): the items joined, kept as one fragment
Joined(items) == [joined |-> items]

\* round-half-even of num/den to an integer
RoundHalfEven(num, den) ==
  IF 2 * (num % den) < den THEN num \div den
  ELSE IF 2 * (num % den) > den THEN (num \div den) + 1
  ELSE IF (num \div den) % 2 = 0 THEN num \div den
  ELSE (num \div den) + 1

\* "{x:.0f}" of a percentage (the float rounds half to even; the quotients of
\* the small counts here are exact in binary whenever they end in .5)
FormatF0(ratio) == Num(RoundHalfEven(ratio.num, ratio.den))

\* str.upper()
Upper(s) == [i \in 1..Len(s) |-> UpperChar(s[i])]

\* str.replace(old, new) for single characters
ReplaceChar(s, old, new) == [i \in 1..Len(s) |-> IF s[i] = old THEN new ELSE s[i]]

\* The characters of the tags and notes of the prompt data (tags and notes
\* are atoms in the store; a prompt slices and rewrites their characters).
LongNote == "long note"

LongNoteLen == 201

Chars(s) ==
  CASE s = "takedown_defense" -> << "t", "a", "k", "e", "d", "o", "w", "n", "_", "d", "e", "f", "e", "n", "s", "e" >>
    [] s = "cardio" -> << "c", "a", "r", "d", "i", "o" >>
    [] s = "reach" -> << "r", "e", "a", "c", "h" >>
    [] s = "power" -> << "p", "o", "w", "e", "r" >>
    [] s = "chin" -> << "c", "h", "i", "n" >>
    [] s = "youth" -> << "y", "o", "u", "t", "h" >>
    [] s = "ring_rust" -> << "r", "i", "n", "g", "_", "r", "u", "s", "t" >>
    [] s = "reach advantage" -> << "r", "e", "a", "c", "h", " ", "a", "d", "v", "a", "n", "t", "a", "g", "e" >>
    [] s = "better cardio" -> << "b", "e", "t", "t", "e", "r", " ", "c", "a", "r", "d", "i", "o" >>
    [] s = "more power" -> << "m", "o", "r", "e", " ", "p", "o", "w", "e", "r" >>
    [] s = LongNote -> [i \in 1..LongNoteLen |-> "x"]

\* the caps of the prompt templates
TagsShown == 5

RationalesShown == 2

NoteShown == 200

AnalystsShown == 3

InsideDistanceShown == 10

UnderdogsShown == 8

\* "- {tag}: mentioned by {count} analysts\n" for each of top_tags[:5]
TagLines(top_tags) ==
  Flatten([i \in 1..Len(top_tags) |->
    << Lit("- "), Txt(ReplaceChar(Chars(top_tags[i].tag), "_", " ")),
       Lit(": mentioned by "), Num(top_tags[i].count), Lit(" analysts\n") >>])

\* "{m} ({c})" for each key of a dict of counts
MethodItems(counter) ==
  [i \in 1..Len(counter) |-> << Txt(counter[i].key), Lit(" ("), Num(counter[i].count), Lit(")") >>]

\* "{i}. {note[:200]}...\n" for each of example_rationales[:2]
RationaleLines(notes) ==
  Flatten([i \in 1..Len(notes) |->
    << Num(i), Lit(". "), Txt(Take(Chars(notes[i]), NoteShown)), Lit("...\n") >>])

\* the body of the loop over the two fighters of build_fight_analysis_prompt
FighterSection(fighter, ctx) ==
  (IF ctx.top_tags # << >>
     THEN << Lit("\nKEY FACTORS FOR "), Txt(Upper(fighter)), Lit(":\n") >>
          \o TagLines(Take(ctx.top_tags, TagsShown))
     ELSE << >>)
  \o (IF ctx.methods # << >>
        THEN << Lit("Expected methods: "), Joined(MethodItems(ctx.methods)), Lit("\n") >>
        ELSE << >>)
  \o (IF ctx.example_rationales # << >>
        THEN << Lit("\nExample analyst reasoning for "), Txt(fighter), Lit(":\n") >>
             \o RationaleLines(Take(ctx.example_rationales, RationalesShown))
        ELSE << >>)

\* the head every template but the general one starts with (the fixed
\* instruction paragraphs that end a template are cut to their heading)
PromptHead(user_question) ==
  << Lit("You are ChatMMAPicks, an AI that synthesizes MMA analyst predictions.\n\nUSER QUESTION: "),
     Txt(user_question) >>

\* PromptGenerator.build_fight_analysis_prompt
build_fight_analysis_prompt(context, user_question) ==
  PromptHead(user_question)
  \o << Lit("\n\nFIGHT CONTEXT:\nEvent: "), Txt(context.fight.event),
        Lit("\nFight: "), Txt(context.fight.fighter_a), Lit(" vs "), Txt(context.fight.fighter_b),
        Lit("\n\nPREDICTION SUMMARY:\n- Total analysts: "), Num(context.summary.total_predictions),
        Lit("\n- Picking "), Txt(context.fight.fighter_a), Lit(": "),
        Num(context.summary.picks_for_a), Lit(" analysts\n- Picking "),
        Txt(context.fight.fighter_b), Lit(": "), Num(context.summary.picks_for_b),
        Lit(" analysts\n") >>
  \o FighterSection(context.fight.fighter_a, context.fighter_a_context)
  \o FighterSection(context.fight.fighter_b, context.fighter_b_context)
  \o (IF context.analyst_info.reveal_names
        THEN << Lit("\nTOP ANALYSTS:\n"),
                Lit("For "), Txt(context.fight.fighter_a), Lit(": "),
                Joined(Take(context.analyst_info.top_analysts_a, AnalystsShown)), Lit("\n"),
                Lit("For "), Txt(context.fight.fighter_b), Lit(": "),
                Joined(Take(context.analyst_info.top_analysts_b, AnalystsShown)), Lit("\n") >>
        ELSE << Lit("\n- "), Num(context.analyst_info.fighter_a_high_accuracy_count),
                Lit(" analysts picked "), Txt(context.fight.fighter_a),
                Lit("\n- "), Num(context.analyst_info.fighter_b_high_accuracy_count),
                Lit(" analysts picked "), Txt(context.fight.fighter_b), Lit("\n") >>)
  \o << Lit("\nINSTRUCTIONS: fight analysis\n\nRESPONSE:\n") >>

\* method_counts of one inside-distance pick: a dict in first-seen order
MethodCounts(methods) == Counter([i \in 1..Len(methods) |-> methods[i].method])

InsideDistanceLines(picks) ==
  Flatten([idx \in 1..Len(picks) |->
    << Lit("\n"), Num(idx), Lit(". "), Txt(picks[idx].favored_fighter), Lit(" ("),
       Txt(picks[idx].fight), Lit(")\n   - "), Num(picks[idx].finish_prediction_count),
       Lit(" analysts predict finish\n"), Lit("   - Methods: "),
       Joined(MethodItems(MethodCounts(picks[idx].methods))), Lit("\n") >>])

\* PromptGenerator.build_inside_distance_prompt
build_inside_distance_prompt(context, user_question) ==
  PromptHead(user_question)
  \o << Lit("\n\nEVENT: "), Txt(context.event),
        Lit("\n\nFIGHTERS MOST LIKELY TO WIN INSIDE THE DISTANCE (KO/TKO/SUB):\n") >>
  \o (IF context.inside_distance_picks = << >>
        THEN << Lit("\nNo fighters have significant finish predictions for this event.\n") >>
        ELSE InsideDistanceLines(Take(context.inside_distance_picks, InsideDistanceShown)))
  \o << Lit("\nINSTRUCTIONS: inside the distance\n\nRESPONSE:\n") >>

\* the picks the loop of build_consensus_picks_prompt runs over: all of them
ConsensusShown(picks) == picks

ConsensusLines(picks) ==
  Flatten([idx \in 1..Len(picks) |->
    << Lit("\n"), Num(idx), Lit(". "), Txt(picks[idx].consensus_fighter), Lit(" over "),
       Txt(IF picks[idx].consensus_fighter = picks[idx].fighter_b
             THEN picks[idx].fighter_a ELSE picks[idx].fighter_b),
       Lit("\n   - Consensus: "), Num(picks[idx].consensus_count), Lit("-"),
       Num(picks[idx].opposing_count), Lit(" ("),
       FormatF0(picks[idx].consensus_percentage), Lit("%)\n") >>])

\* PromptGenerator.build_consensus_picks_prompt
build_consensus_picks_prompt(context, user_question) ==
  PromptHead(user_question)
  \o << Lit("\n\nEVENT: "), Txt(context.event),
        Lit("\n\nCONSENSUS PICKS (sorted by strength):\n") >>
  \o ConsensusLines(ConsensusShown(context.consensus_picks))
  \o << Lit("\nINSTRUCTIONS: consensus picks\n\nRESPONSE:\n") >>

UnderdogLines(picks) ==
  Flatten([idx \in 1..Len(picks) |->
    << Lit("\n"), Num(idx), Lit(". "), Txt(picks[idx].underdog), Lit(" ("),
       Txt(picks[idx].fight), Lit(")\n   - Underdog pick: "),
       Num(picks[idx].underdog_count), Lit("-"), Num(picks[idx].favorite_count), Lit(" ("),
       FormatF0(picks[idx].underdog_percentage), Lit("%)\n") >>
    \o (IF picks[idx].top_tags # << >>
          THEN << Lit("   - Key factors: "),
                  Joined([t \in 1..Len(picks[idx].top_tags) |->
                            ReplaceChar(Chars(picks[idx].top_tags[t].tag), "_", " ")]),
                  Lit("\n") >>
          ELSE << >>)
    \o (IF picks[idx].high_accuracy_analysts # << >>
          THEN << Lit("   - Backed by: "),
                  Joined([a \in 1..Len(Take(picks[idx].high_accuracy_analysts, AnalystsShown)) |->
                            picks[idx].high_accuracy_analysts[a].name]),
                  Lit("\n") >>
          ELSE << >>)])

\* PromptGenerator.build_underdogs_prompt
build_underdogs_prompt(context, user_question) ==
  PromptHead(user_question)
  \o << Lit("\n\nEVENT: "), Txt(context.event),
        Lit("\n\nBEST UNDERDOG PICKS (sorted by value):\n") >>
  \o (IF context.underdog_picks = << >>
        THEN << Lit("\nNo clear underdog opportunities identified for this event.\n") >>
        ELSE UnderdogLines(Take(context.underdog_picks, UnderdogsShown)))
  \o << Lit("\nINSTRUCTIONS: underdog picks\n\nRESPONSE:\n") >>

\* PromptGenerator.build_general_prompt
build_general_prompt(user_question) ==
  << Lit("You are ChatMMAPicks, an AI assistant for MMA predictions.\n\nThe user asked: "),
     Txt(user_question),
     Lit("\n\nThis appears to be a general question. [...]\n\nRESPONSE:\n") >>

(***************************************************************************)
(* SpecPrompt: the prompt templates applied to contexts of every size      *)
(***************************************************************************)

\* the largest number of fights of a context
MaxListed == 11

\* the largest number of picks on one side of the analysed fight
MaxBackers == 4

PromptTagCycle ==
  << << "takedown_defense", "cardio" >>, << "reach", "cardio" >>, << "power", "chin" >>,
     << "youth" >>, << "ring_rust", "takedown_defense" >>, << >> >>

PromptMethodCycle == << "KO/TKO", "Submission", "Decision", "KO/TKO", NULL >>

PromptNoteCycle == << "reach advantage", LongNote, "better cardio", "more power", NULL >>

\* n picks for one fighter, their columns running through the cycles
PromptPicks(fight_id, picked, n, shift) ==
  [k \in 1..n |->
     PickRow(fight_id, AnalystAt(k + shift), picked,
             CycleAt(PromptMethodCycle, k, shift),
             CycleAt(PromptNoteCycle, k, shift),
             CycleAt(PromptTagCycle, k, shift))]

\* n finish picks for one fighter
PromptFinishPicks(fight_id, picked, n) ==
  [k \in 1..n |->
     PickRow(fight_id, AnalystAt(k), picked,
             IF k % 2 = 1 THEN "KO/TKO" ELSE "Submission", NULL, << >>)]

\* the i-th fight of a card of any length
CardFight(i) ==
  [fight_id |-> i, event_id |-> 1,
   fighter_a |-> << "R", "e", "d", " ", Alphabet[16 + i] >>,
   fighter_b |-> << "B", "l", "u", "e", " ", Alphabet[16 + i] >>]

\* the context of a fight with n_a picks for fighter A and n_b for fighter B
FightContextAt(n_a, n_b, shift) ==
  FightContextOf([fight_id |-> 1, fighter_a |-> JonJones, fighter_b |-> TomAspinall,
                  event |-> Ufc309, results_entered |-> FALSE],
                 PromptPicks(1, JonJones, n_a, shift) \o PromptPicks(1, TomAspinall, n_b, shift + 1),
                 PromptPicks(1, JonJones, n_a, shift),
                 PromptPicks(1, TomAspinall, n_b, shift + 1))

\* the consensus context of a card of n fights with picks
ConsensusContextAt(n, shift) ==
  [event |-> Ufc309,
   results_entered |-> FALSE,
   consensus_picks |->
     SortedConsensus(Flatten([i \in 1..n |->
       ConsensusOfCounts(CardFight(i), 1 + ((i + shift) % 3), (i + shift) % 2)]))]

\* the inside-distance context of a card of n fights with three or more
\* finish picks for one fighter
InsideDistanceContextAt(n, shift) ==
  [event |-> Ufc309,
   results_entered |-> FALSE,
   inside_distance_picks |->
     SortedInsideDistance(Flatten([i \in 1..n |->
       InsideDistanceOfCounts(CardFight(i), 3 + ((i + shift) % 2),
         PromptFinishPicks(i, CardFight(i).fighter_a, 3 + ((i + shift) % 2)), << >>, TRUE)]))]

\* the underdog context of a card of n fights, each with an eligible underdog
UnderdogContextAt(n, shift) ==
  [event |-> Ufc309,
   results_entered |-> FALSE,
   underdog_picks |->
     SortedUnderdogs(Flatten([i \in 1..n |->
       UnderdogOfLists(CardFight(i), TRUE,
         PromptPicks(i, CardFight(i).fighter_a, 2 + ((i + shift) % 3), shift),
         PromptPicks(i, CardFight(i).fighter_b, 5 + ((i + shift) % 3), shift),
         7 + 2 * ((i + shift) % 3))]))]

PromptQuestions == { AskConsensus309, AskTopPicks }

BuildFightAnalysisPrompt ==
  /\ result = NoResult
  /\ \E n_a \in 0..MaxBackers, n_b \in 0..MaxBackers, shift \in 0..2, q \in PromptQuestions :
       /\ n_a + n_b > 0
       /\ result' = [op |-> "build_fight_analysis_prompt",
                     context |-> FightContextAt(n_a, n_b, shift),
                     ret |-> build_fight_analysis_prompt(FightContextAt(n_a, n_b, shift), q)]
  /\ UNCHANGED << events, fights, analyst_picks, pick_tags, hash_seed >>
  /\ UNCHANGED pages

BuildInsideDistancePrompt ==
  /\ result = NoResult
  /\ \E n \in 0..MaxListed, shift \in 0..1, q \in PromptQuestions :
       result' = [op |-> "build_inside_distance_prompt",
                  context |-> InsideDistanceContextAt(n, shift),
                  ret |-> build_inside_distance_prompt(InsideDistanceContextAt(n, shift), q)]
  /\ UNCHANGED << events, fights, analyst_picks, pick_tags, hash_seed >>
  /\ UNCHANGED pages

BuildConsensusPicksPrompt ==
  /\ result = NoResult
  /\ \E n \in 0..MaxListed, shift \in 0..1, q \in PromptQuestions :
       result' = [op |-> "build_consensus_picks_prompt",
                  context |-> ConsensusContextAt(n, shift),
                  ret |-> build_consensus_picks_prompt(ConsensusContextAt(n, shift), q)]
  /\ UNCHANGED << events, fights, analyst_picks, pick_tags, hash_seed >>
  /\ UNCHANGED pages

BuildUnderdogsPrompt ==
  /\ result = NoResult
  /\ \E n \in 0..MaxListed, shift \in 0..1, q \in PromptQuestions :
       result' = [op |-> "build_underdogs_prompt",
                  context |-> UnderdogContextAt(n, shift),
                  ret |-> build_underdogs_prompt(UnderdogContextAt(n, shift), q)]
  /\ UNCHANGED << events, fights, analyst_picks, pick_tags, hash_seed >>
  /\ UNCHANGED pages

BuildGeneralPrompt ==
  /\ result = NoResult
  /\ \E q \in PromptQuestions :
       result' = [op |-> "build_general_prompt", context |-> NoneRet,
                  ret |-> build_general_prompt(q)]
  /\ UNCHANGED << events, fights, analyst_picks, pick_tags, hash_seed >>
  /\ UNCHANGED pages

InitPrompt ==
  /\ events = SeedEvents
  /\ fights = SeedFights
  /\ analyst_picks = << >>
  /\ pick_tags = << >>
  /\ hash_seed \in HashSeeds
  /\ PagesIdle
  /\ result = NoResult

NextPrompt ==
  \/ BuildFightAnalysisPrompt
  \/ BuildInsideDistancePrompt
  \/ BuildConsensusPicksPrompt
  \/ BuildUnderdogsPrompt
  \/ BuildGeneralPrompt
  \/ ReplyConsumed

SpecPrompt == InitPrompt /\ [][NextPrompt]_vars

(***************************************************************************)
(* Properties of the prompt templates                                      *)
(***************************************************************************)

IsPrompt == result # NoResult /\ "ret" \in DOMAIN result /\ "context" \in DOMAIN result
            /\ result.op \in { "build_fight_analysis_prompt", "build_inside_distance_prompt",
                               "build_consensus_picks_prompt", "build_underdogs_prompt",
                               "build_general_prompt" }

\* the number of fragments of the prompt equal to the literal s
CountLit(prompt, s) == Cardinality({ i \in 1..Len(prompt) : prompt[i] = Lit(s) })

\* the positions of the joined lists of the prompt that follow the literal s
JoinedAfter(prompt, s) ==
  { i \in 2..Len(prompt) : prompt[i - 1] = Lit(s) /\ "joined" \in DOMAIN prompt[i] }

\* the tag lines between the header at position h and the next header
TagLinesOf(prompt, h) ==
  { j \in (h + 1)..Len(prompt) :
      /\ prompt[j] = Lit(": mentioned by ")
      /\ \A k \in (h + 1)..j : prompt[k] # Lit("\nKEY FACTORS FOR ") }

\* the rationale lines between the header at position h and the next header
RationaleLinesOf(prompt, h) ==
  { j \in (h + 1)..Len(prompt) :
      /\ prompt[j] = Lit("...\n")
      /\ \A k \in (h + 1)..j : prompt[k] # Lit("\nExample analyst reasoning for ") }

\* the number of fights a prompt lists, whatever its template
FightsListed(prompt) ==
  CountLit(prompt, " analysts predict finish\n")
  + CountLit(prompt, " over ")
  + CountLit(prompt, ")\n   - Underdog pick: ")

\* the lists the templates cut: tags and rationales per fighter, analysts per
\* side, the characters of a note, inside-distance and underdog fights
CutListsBounded ==
  IsPrompt =>
    /\ \A h \in 1..Len(result.ret) :
         result.ret[h] = Lit("\nKEY FACTORS FOR ")
           => Cardinality(TagLinesOf(result.ret, h)) <= TagsShown
    /\ \A h \in 1..Len(result.ret) :
         result.ret[h] = Lit("\nExample analyst reasoning for ")
           => Cardinality(RationaleLinesOf(result.ret, h)) <= RationalesShown
    /\ \A j \in 2..Len(result.ret) :
         result.ret[j] = Lit("...\n") => Len(result.ret[j - 1].txt) <= NoteShown
    /\ \A j \in JoinedAfter(result.ret, ": ") \cup JoinedAfter(result.ret, "   - Backed by: ") :
         Len(result.ret[j].joined) <= AnalystsShown
    /\ CountLit(result.ret, " analysts predict finish\n") <= InsideDistanceShown
    /\ CountLit(result.ret, ")\n   - Underdog pick: ") <= UnderdogsShown

\* C21: every prompt is bounded whatever the size of its context: at most
\* 10 inside-distance fights, 8 underdog fights, 5 tags per fighter,
\* 3 analysts per side, 200 characters of a note, and no template (the consensus
\* template included) lists more fights than the largest of these caps.
C21_EveryPromptBounded ==
  /\ CutListsBounded
  /\ IsPrompt => FightsListed(result.ret) <= InsideDistanceShown

\* the consensus prompt of a card of more than ten fights lists every one
C21_ConsensusListsEveryFight ==
  /\ IsPrompt
  /\ result.op = "build_consensus_picks_prompt"
  /\ Len(result.context.consensus_picks) > InsideDistanceShown
  /\ FightsListed(result.ret) = Len(result.context.consensus_picks)

(***************************************************************************)
(* SpecCost: _estimate_cost applied to token counts                        *)
(***************************************************************************)

\* the largest token count of a usage
MaxTokens == 20

CallEstimateCost ==
  /\ result = NoResult
  /\ \E n_in \in 0..MaxTokens, n_out \in 0..MaxTokens :
       result' = [op |-> "_estimate_cost",
                  usage |-> [input_tokens |-> n_in, output_tokens |-> n_out],
                  ret |-> _estimate_cost([input_tokens |-> n_in, output_tokens |-> n_out])]
  /\ UNCHANGED << events, fights, analyst_picks, pick_tags, hash_seed >>
  /\ UNCHANGED pages

NextCost ==
  \/ CallEstimateCost
  \/ ReplyConsumed

SpecCost == InitPrompt /\ [][NextCost]_vars

IsCostReply == result # NoResult /\ result.op = "_estimate_cost"

\* the exact amount of a usage in micro-dollars: 3 per input token, 15 per output token
MicroDollars(usage) == 3 * usage.input_tokens + 15 * usage.output_tokens

\* the usage with one more token of one kind
OneMoreInput(usage) == [usage EXCEPT !.input_tokens = @ + 1]

OneMoreOutput(usage) == [usage EXCEPT !.output_tokens = @ + 1]

\* C22: _estimate_cost returns the token counts it was given and their sum;
\* cost_usd is the exact amount (3 micro-dollars per input token, 15 per output
\* token) rounded to a nearest multiple of 10 micro-dollars, is not negative,
\* and does not decrease when either count grows by one.
C22_CostRoundedAndMonotone ==
  IsCostReply =>
    /\ result.ret.input_tokens = result.usage.input_tokens
    /\ result.ret.output_tokens = result.usage.output_tokens
    /\ result.ret.total_tokens = result.usage.input_tokens + result.usage.output_tokens
    /\ 10 * result.ret.cost_usd - MicroDollars(result.usage) \in -5..5
    /\ result.ret.cost_usd >= 0
    /\ result.ret.cost_usd <= _estimate_cost(OneMoreInput(result.usage)).cost_usd
    /\ result.ret.cost_usd <= _estimate_cost(OneMoreOutput(result.usage)).cost_usd
    /\ result.ret = _estimate_cost(result.usage)

\* one output token and nothing else costs 15 micro-dollars, halfway between
\* two units, and is reported as 0.00001 dollar
C22_HalfwayRoundedDown ==
  /\ IsCostReply
  /\ result.usage = [input_tokens |-> 0, output_tokens |-> 1]
  /\ MicroDollars(result.usage) = 15
  /\ result.ret.cost_usd = 1
  /\ result.ret.total_tokens = 1
  /\ _estimate_cost(OneMoreInput(result.usage)).cost_usd = 2

(***************************************************************************)
(* SpecInterleave: get_event_consensus_picks one store read at a time,     *)
(* with the ingestion page of another session writing between the reads    *)
(***************************************************************************)

\* the largest number of pick rows written while requests are served
MaxInterleaved == 2

\* the picks saved before the first request
InterleaveSeedPicks ==
  << PickRow(1, "Luke Thomas", PickJones, "KO/TKO", NULL, << "power" >>),
     PickRow(2, "Luke Thomas", PickSilva, "Decision", NULL, << >>) >>

\* the call frame of get_event_consensus_picks before its first read
ConsensusFrame(event_name) ==
  [op |-> "get_event_consensus_picks", pc |-> "event", event_name |-> event_name,
   event |-> NoneRet, fights |-> << >>, picks |-> << >>, reads |-> << >>,
   consensus_picks |-> << >>, ret |-> NoneRet]

InFlight == result # NoResult /\ result.op = "get_event_consensus_picks" /\ result.pc # "done"

\* line 250: event = self._get_event(event_name); lines 251-252: return None
EventRead(frame, event) ==
  IF event = NoneRet THEN [frame EXCEPT !.pc = "done", !.ret = NoneRet]
  ELSE [frame EXCEPT !.pc = "fights", !.event = event]

\* lines 287-293: the sort and the returned dict, once the loop has ended
LoopEnded(frame) ==
  [frame EXCEPT !.pc = "done",
                !.ret = [event |-> frame.event.name,
                         results_entered |-> FALSE,
                         consensus_picks |-> SortedConsensus(frame.consensus_picks)]]

\* the loop of line 257 moves to its next fight
NextFight(frame) ==
  IF Len(frame.fights) <= 1 THEN LoopEnded([frame EXCEPT !.fights = << >>])
  ELSE [frame EXCEPT !.pc = "picks", !.fights = Tail(frame.fights), !.picks = << >>]

\* line 254: fights = self._get_fights_for_event(event["event_id"])
FightsRead(frame, rows) ==
  IF rows = << >> THEN LoopEnded(frame)
  ELSE [frame EXCEPT !.pc = "picks", !.fights = rows]

\* lines 61-72 of _get_picks_for_fight: the analyst_picks rows of the fight;
\* without rows the call returns [] and the loop continues (259-260)
PicksRead(frame, rows) ==
  IF rows = << >>
    THEN NextFight([frame EXCEPT !.reads = Append(@, [fight_id |-> frame.fights[1].fight_id,
                                                       picks |-> << >>, tagged |-> << >>])])
  ELSE [frame EXCEPT !.pc = "tags", !.picks = rows]

\* A variant of the picks an entry is computed from: the table as it is when
\* the tags arrive, not the rows the call read.
PicksReread(rows, fight_id) ==
  FilterIdx(analyst_picks, [i \in 1..Len(analyst_picks) |->
                              analyst_picks[i].fight_id = fight_id], 1)

\* the picks of line 258: the rows _get_picks_for_fight read for the fight
PicksOfCall(rows, fight_id) == rows

\* lines 74-89 of _get_picks_for_fight (the pick_tags rows of the picks read)
\* and lines 262-285 of the loop: the entry of the fight
TagsRead(frame, picks) ==
  NextFight([frame EXCEPT
    !.reads = Append(@, [fight_id |-> frame.fights[1].fight_id, picks |-> frame.picks,
                         tagged |-> picks]),
    !.consensus_picks = @ \o ConsensusOfPicks(frame.fights[1], picks)])

CallConsensus ==
  /\ result = NoResult
  /\ \E event_name \in { Ufc309, HintUfc999 } : result' = ConsensusFrame(event_name)
  /\ UNCHANGED << events, fights, analyst_picks, pick_tags, hash_seed >>
  /\ UNCHANGED pages

ReadEventRow ==
  /\ InFlight /\ result.pc = "event"
  /\ result' = EventRead(result, _get_event(result.event_name))
  /\ UNCHANGED << events, fights, analyst_picks, pick_tags, hash_seed >>
  /\ UNCHANGED pages

ReadFightRows ==
  /\ InFlight /\ result.pc = "fights"
  /\ result' = FightsRead(result, _get_fights_for_event(result.event.event_id))
  /\ UNCHANGED << events, fights, analyst_picks, pick_tags, hash_seed >>
  /\ UNCHANGED pages

ReadPickRows ==
  /\ InFlight /\ result.pc = "picks"
  /\ result' = PicksRead(result,
                 FilterIdx(analyst_picks,
                           [i \in 1..Len(analyst_picks) |->
                              analyst_picks[i].fight_id = result.fights[1].fight_id], 1))
  /\ UNCHANGED << events, fights, analyst_picks, pick_tags, hash_seed >>
  /\ UNCHANGED pages

ReadTagRows ==
  /\ InFlight /\ result.pc = "tags"
  /\ result' = TagsRead(result,
                 AttachTags(PicksOfCall(result.picks, result.fights[1].fight_id)))
  /\ UNCHANGED << events, fights, analyst_picks, pick_tags, hash_seed >>
  /\ UNCHANGED pages

\* the caller has used the returned context
ConsensusReturned ==
  /\ result # NoResult /\ result.op = "get_event_consensus_picks" /\ result.pc = "done"
  /\ result' = NoResult
  /\ UNCHANGED << events, fights, analyst_picks, pick_tags, hash_seed >>
  /\ UNCHANGED pages

\* one read of the call, whichever is next
ReaderStep == ReadEventRow \/ ReadFightRows \/ ReadPickRows \/ ReadTagRows

\* the k-th pick of the store: the article being saved alternates between
\* fights 1 and 2
InterleavedRow(k) ==
  PickRow(2 - (k % 2), AnalystAt(k),
          CycleAt(<< PickJones, PickXyz, PickAspinal, PickSilva >>, k, 0),
          "Decision", NULL, << >>)

\* save_analyst_pick of another session
WritePickRow ==
  /\ Len(analyst_picks) < Len(InterleaveSeedPicks) + MaxInterleaved
  /\ analyst_picks' = InsertPick(analyst_picks, InterleavedRow(Len(analyst_picks) + 1))
  /\ UNCHANGED << events, fights, pick_tags, hash_seed, result >>
  /\ UNCHANGED pages

\* save_pick_tags of another session, for a pick saved before
WriteTagRows ==
  /\ \E i \in 1..Len(analyst_picks) :
       /\ TagsOfPick(analyst_picks[i].pick_id) = << >>
       /\ analyst_picks[i].pick_id > Len(InterleaveSeedPicks)
       /\ pick_tags' = InsertTags(pick_tags, analyst_picks[i].pick_id, << "cardio" >>)
  /\ UNCHANGED << events, fights, analyst_picks, hash_seed, result >>
  /\ UNCHANGED pages

\* get_or_create_fight of another session: a fight added to the card
WriteFightRow ==
  /\ Len(fights) = Len(SeedFights)
  /\ fights' = Append(fights, [fight_id |-> Len(fights) + 1, event_id |-> 1,
                               fighter_a |-> TomAspinall, fighter_b |-> JonJones])
  /\ UNCHANGED << events, analyst_picks, pick_tags, hash_seed, result >>
  /\ UNCHANGED pages

InitInterleave ==
  /\ events = SeedEvents
  /\ fights = SeedFights
  /\ analyst_picks = SavedPicks(<< >>, InterleaveSeedPicks)
  /\ pick_tags = SavedTags(<< >>, 1, InterleaveSeedPicks)
  /\ hash_seed = 0
  /\ PagesIdle
  /\ result = NoResult

NextInterleave ==
  \/ CallConsensus
  \/ ReadEventRow
  \/ ReadFightRows
  \/ ReadPickRows
  \/ ReadTagRows
  \/ ConsensusReturned
  \/ WritePickRow
  \/ WriteTagRows
  \/ WriteFightRow

SpecInterleave == InitInterleave /\ [][NextInterleave]_vars

(***************************************************************************)
(* Properties of the interleaved aggregation                               *)
(***************************************************************************)

IsConsensusFrame == result # NoResult /\ result.op = "get_event_consensus_picks"

PickIds(picks) == { picks[i].pick_id : i \in 1..Len(picks) }

\* the entry agrees with the classification of the rows read for its fight
EntryOfRead(entry, read) ==
  /\ PickIds(_classify_picks(read.picks, entry.fighter_a, entry.fighter_b).picks_a)
       \cap PickIds(_classify_picks(read.picks, entry.fighter_a, entry.fighter_b).picks_b) = { }
  /\ entry.total_predictions
       = Len(_classify_picks(read.picks, entry.fighter_a, entry.fighter_b).picks_a)
         + Len(_classify_picks(read.picks, entry.fighter_a, entry.fighter_b).picks_b)
  /\ entry.total_predictions <= Len(read.picks)

\* the fight rows of the store with the fighters of the entry
FightIdsOf(entry) ==
  { fights[i].fight_id : i \in { j \in 1..Len(fights) :
                                   /\ fights[j].fighter_a = entry.fighter_a
                                   /\ fights[j].fighter_b = entry.fighter_b } }

EntriesCounted(frame, entries) ==
  \A k \in 1..Len(entries) :
    /\ entries[k].consensus_count + entries[k].opposing_count = entries[k].total_predictions
    /\ entries[k].consensus_count >= entries[k].opposing_count
    /\ entries[k].total_predictions > 0
    /\ \E r \in 1..Len(frame.reads) :
         /\ frame.reads[r].fight_id \in FightIdsOf(entries[k])
         /\ EntryOfRead(entries[k], frame.reads[r])

\* the call in flight is at one of its reads and holds what the read needs:
\* the event row for the fights read, the current fight for the picks read,
\* the picks rows for the tags read
HasNextRead ==
  /\ result.pc \in { "event", "fights", "picks", "tags" }
  /\ result.pc = "fights" => result.event # NoneRet
  /\ result.pc \in { "picks", "tags" } => result.fights # << >>
  /\ result.pc = "tags" => result.picks # << >>

\* the entries built so far, and the entries returned, are counted as stated
FrameCounted ==
  IsConsensusFrame =>
    /\ EntriesCounted(result, result.consensus_picks)
    /\ result.pc = "done" /\ result.ret # NoneRet
         => /\ EntriesCounted(result, result.ret.consensus_picks)
            /\ Len(result.ret.consensus_picks) = Len(result.consensus_picks)

MaxSaves == 2

AliasSessions == { 1, 2 }

\* the aliases an editor may save: [canonical_name, alias]
AliasInputs ==
  { [canonical_name |-> "Jon Jones", alias |-> "Bones"],
    [canonical_name |-> "Alex Pereira", alias |-> "Poatan"],
    [canonical_name |-> "Jonathan Jones", alias |-> "Bones"] }

\* upsert(row, on_conflict="alias"): the row replaces the one with its alias
RECURSIVE UpsertAlias(_, _)
UpsertAlias(table, row) ==
  IF table = << >> THEN << row >>
  ELSE IF table[1].alias = row.alias THEN << row >> \o Tail(table)
  ELSE << table[1] >> \o UpsertAlias(Tail(table), row)

AliasesOf(rows) == { rows[i].alias : i \in 1..Len(rows) }

IdleCall == [call |-> "idle", pc |-> "returned"]

\* the calls of the sessions, and the aliases whose save_alias has returned
AliasCalls(calls, saved, n_saves) ==
  [op |-> "aliases", calls |-> calls, saved |-> saved, n_saves |-> n_saves]

CallOf(s) == result.calls[s]

\* the session is between two calls
Free(s) == CallOf(s).pc = "returned"

SetCall(s, frame) == [result EXCEPT !.calls[s] = frame]

\* get_fighter_aliases() is called: st.cache_data looks the entry up; a hit
\* returns the cached list, a miss runs the function body
BeginGetFighterAliases(s) ==
  /\ Free(s)
  /\ result' = SetCall(s,
       IF alias_cache.cached
         THEN [call |-> "get_fighter_aliases", pc |-> "returned", hit |-> TRUE,
               after |-> result.saved, ret |-> alias_cache.value]
         ELSE [call |-> "get_fighter_aliases", pc |-> "select", hit |-> FALSE,
               after |-> result.saved, ret |-> << >>])
  /\ UNCHANGED << events, fights, analyst_picks, pick_tags, hash_seed >>
  /\ UNCHANGED pages

\* line 17: the select of the function body
SelectAliases(s) ==
  /\ CallOf(s).call = "get_fighter_aliases" /\ CallOf(s).pc = "select"
  /\ result' = SetCall(s, [CallOf(s) EXCEPT !.pc = "store", !.ret = fighter_aliases])
  /\ UNCHANGED << events, fights, analyst_picks, pick_tags, hash_seed >>
  /\ UNCHANGED pages

\* A variant of the step below: the value computed is not cached when the
\* cache was cleared while it was computed.
CacheComputedUnlessSaved(ret, saved_before) ==
  IF saved_before # result.saved THEN alias_cache ELSE [cached |-> TRUE, value |-> ret]

\* st.cache_data stores the value the body returned (for ttl seconds)
CacheComputed(ret, saved_before) == [cached |-> TRUE, value |-> ret]

StoreAliases(s) ==
  /\ CallOf(s).call = "get_fighter_aliases" /\ CallOf(s).pc = "store"
  /\ alias_cache' = CacheComputed(CallOf(s).ret, CallOf(s).after)
  /\ result' = SetCall(s, [CallOf(s) EXCEPT !.pc = "returned"])
  /\ UNCHANGED << events, fights, analyst_picks, pick_tags, hash_seed >>
  /\ UNCHANGED << fighter_aliases, session_state >>

\* lines 24-27 of save_alias: the upsert
BeginSaveAlias(s) ==
  /\ Free(s)
  /\ result.n_saves < MaxSaves
  /\ \E row \in AliasInputs :
       /\ fighter_aliases' = UpsertAlias(fighter_aliases, row)
       /\ result' = [SetCall(s, [call |-> "save_alias", pc |-> "clear", row |-> row])
                       EXCEPT !.n_saves = @ + 1]
  /\ UNCHANGED << events, fights, analyst_picks, pick_tags, hash_seed >>
  /\ UNCHANGED << alias_cache, session_state >>

\* line 28 of save_alias: get_fighter_aliases.clear(), and the return
ClearAliasCache(s) ==
  /\ CallOf(s).call = "save_alias" /\ CallOf(s).pc = "clear"
  /\ alias_cache' = NoCache
  /\ result' = [SetCall(s, [CallOf(s) EXCEPT !.pc = "returned"])
                  EXCEPT !.saved = @ \cup { CallOf(s).row.alias }]
  /\ UNCHANGED << events, fights, analyst_picks, pick_tags, hash_seed >>
  /\ UNCHANGED << fighter_aliases, session_state >>

\* ttl=300: the entry is dropped five minutes after it was stored
AliasCacheExpired ==
  /\ alias_cache.cached
  /\ alias_cache' = NoCache
  /\ UNCHANGED << events, fights, analyst_picks, pick_tags, hash_seed, result >>
  /\ UNCHANGED << fighter_aliases, session_state >>

InitAlias ==
  /\ events = SeedEvents
  /\ fights = SeedFights
  /\ analyst_picks = << >>
  /\ pick_tags = << >>
  /\ hash_seed = 0
  /\ PagesIdle
  /\ result = AliasCalls([s \in AliasSessions |-> IdleCall], { }, 0)

NextAlias ==
  \E s \in AliasSessions :
    \/ BeginGetFighterAliases(s)
    \/ SelectAliases(s)
    \/ StoreAliases(s)
    \/ BeginSaveAlias(s)
    \/ ClearAliasCache(s)
    \/ AliasCacheExpired

SpecAlias == InitAlias /\ [][NextAlias]_vars

(***************************************************************************)
(* Properties of the alias cache                                           *)
(***************************************************************************)

GetReturned(s) ==
  /\ result.op = "aliases"
  /\ CallOf(s).call = "get_fighter_aliases"
  /\ CallOf(s).pc = "returned"

\* C24: a get_fighter_aliases call made after a save_alias call has returned
\* gets a list that holds the saved alias, whatever other call was in flight
\* while save_alias ran.
C24_SavedAliasSeenByLaterCalls ==
  \A s \in AliasSessions :
    GetReturned(s) => CallOf(s).after \subseteq AliasesOf(CallOf(s).ret)

\* a call made after save_alias returned is served from the cache an earlier
\* call filled with the rows it had read before the upsert
C24_StaleListCachedAfterClear ==
  \E s \in AliasSessions :
    /\ GetReturned(s)
    /\ CallOf(s).hit
    /\ "Bones" \in CallOf(s).after
    /\ "Bones" \in AliasesOf(fighter_aliases)
    /\ "Bones" \notin AliasesOf(CallOf(s).ret)

(***************************************************************************)
(* db.py: get_or_create_event                                              *)
(***************************************************************************)

\* text ILIKE pattern: "%" stands for any run of characters, "_" for any one
\* character, every other character for itself in either case
RECURSIVE ILike(_, _)
ILike(text, pattern) ==
  IF pattern = << >> THEN text = << >>
  ELSE IF pattern[1] = "%"
    THEN ILike(text, Tail(pattern)) \/ (text # << >> /\ ILike(Tail(text), pattern))
  ELSE /\ text # << >>
       /\ pattern[1] = "_" \/ LowerChar(text[1]) = LowerChar(pattern[1])
       /\ ILike(Tail(text), Tail(pattern))

\* lines 39-46: select event_id, date, location where name ilike name, limit 1
\* (no order is asked for: the rows come in the order the table holds them)
SelectEvent(name) ==
  Take(FilterIdx(events, [i \in 1..Len(events) |-> ILike(events[i].name, name)], 1), 1)

\* lines 49-53: the columns to fill in, given the row found
EventUpdates(row, date, location) ==
  [date |-> IF date # NoDate /\ row.date = NoDate THEN date ELSE NoDate,
   location |-> IF Truthy(location) /\ ~Truthy(row.location) THEN location ELSE NULL]

NoUpdates == [date |-> NoDate, location |-> NULL]

\* line 55: update(updates).eq("event_id", event_id)
UpdatedEvents(table, event_id, updates) ==
  [i \in 1..Len(table) |->
     IF table[i].event_id # event_id THEN table[i]
     ELSE [table[i] EXCEPT
             !.date = IF updates.date # NoDate THEN updates.date ELSE @,
             !.location = IF updates.location # NULL THEN updates.location ELSE @]]

\* lines 58-63: insert {"name": name} with date and location when given
InsertedEvent(table, name, date, location) ==
  Append(table, [event_id |-> Len(table) + 1, name |-> name, date |-> date,
                 location |-> IF Truthy(location) THEN location ELSE NULL])

(***************************************************************************)
(* SpecEvents: get_or_create_event called by two ingestion sessions, one   *)
(* store request at a time                                                 *)
(***************************************************************************)

\* the largest number of get_or_create_event calls
MaxEventCalls == 3

\* what the sessions enter as event name, date and location
EventInputs ==
  { [name |-> Ufc309, date |-> NoDate, location |-> NULL],
    [name |-> Lower(Ufc309), date |-> 20241116, location |-> ""],
    [name |-> Ufc309, date |-> 20241117, location |-> "Las Vegas"],
    [name |-> Ufc310, date |-> NoDate, location |-> "New York"] }

\* the call starts with its select; what follows depends on the row found
EventCallAfterSelect(input, found) ==
  IF found = << >>
    THEN [call |-> "get_or_create_event", pc |-> "insert", input |-> input,
          found |-> found, updates |-> NoUpdates, ret |-> 0]
  ELSE IF EventUpdates(found[1], input.date, input.location) = NoUpdates
    THEN [call |-> "get_or_create_event", pc |-> "returned", input |-> input,
          found |-> found, updates |-> NoUpdates, ret |-> found[1].event_id]
  ELSE [call |-> "get_or_create_event", pc |-> "update", input |-> input,
        found |-> found,
        updates |-> EventUpdates(found[1], input.date, input.location),
        ret |-> found[1].event_id]

BeginGetOrCreateEvent(s) ==
  /\ Free(s)
  /\ result.n_saves < MaxEventCalls
  /\ \E input \in EventInputs :
       result' = [SetCall(s, EventCallAfterSelect(input, SelectEvent(input.name)))
                    EXCEPT !.n_saves = @ + 1]
  /\ UNCHANGED << events, fights, analyst_picks, pick_tags, hash_seed >>
  /\ UNCHANGED pages

UpdateFoundEvent(s) ==
  /\ CallOf(s).call = "get_or_create_event" /\ CallOf(s).pc = "update"
  /\ events' = UpdatedEvents(events, CallOf(s).ret, CallOf(s).updates)
  /\ result' = SetCall(s, [CallOf(s) EXCEPT !.pc = "returned"])
  /\ UNCHANGED << fights, analyst_picks, pick_tags, hash_seed >>
  /\ UNCHANGED pages

InsertNewEvent(s) ==
  /\ CallOf(s).call = "get_or_create_event" /\ CallOf(s).pc = "insert"
  /\ events' = InsertedEvent(events, CallOf(s).input.name, CallOf(s).input.date,
                             CallOf(s).input.location)
  /\ result' = SetCall(s, [CallOf(s) EXCEPT !.pc = "returned", !.ret = Len(events) + 1])
  /\ UNCHANGED << fights, analyst_picks, pick_tags, hash_seed >>
  /\ UNCHANGED pages

InitEvents ==
  /\ events = << >>
  /\ fights = << >>
  /\ analyst_picks = << >>
  /\ pick_tags = << >>
  /\ hash_seed = 0
  /\ PagesIdle
  /\ result = AliasCalls([s \in AliasSessions |-> IdleCall], { }, 0)

NextEvents ==
  \E s \in AliasSessions :
    \/ BeginGetOrCreateEvent(s)
    \/ UpdateFoundEvent(s)
    \/ InsertNewEvent(s)

SpecEvents == InitEvents /\ [][NextEvents]_vars

(***************************************************************************)
(* Properties of get_or_create_event                                       *)
(***************************************************************************)

EventsUniqueByName(table) ==
  \A i, j \in 1..Len(table) : Lower(table[i].name) = Lower(table[j].name) => i = j

\* C25: whatever the interleaving of the sessions' get_or_create_event calls,
\* no two event rows have names equal ignoring case, a date or location that
\* is not blank is never changed, and a call that found a row inserts none.
C25_EventsUniqueAndBlanksOnlyFilled ==
  [][/\ EventsUniqueByName(events')
     /\ \A i \in 1..Len(events) :
          /\ events[i].date # NoDate => events'[i].date = events[i].date
          /\ Truthy(events[i].location) => events'[i].location = events[i].location
     /\ \A s \in AliasSessions :
          CallOf(s).call = "get_or_create_event" /\ CallOf(s).found # << >>
            /\ result'.calls[s] # CallOf(s)
            => Len(events') = Len(events)]_vars

\* both sessions looked for "UFC 309" before either had inserted it, and the
\* table holds it twice, in two spellings
C25_SameEventTwice ==
  /\ Len(events) = 2
  /\ events[1].name = Ufc309
  /\ events[2].name = Lower(Ufc309)
  /\ \A s \in AliasSessions :
       CallOf(s).call = "get_or_create_event" /\ CallOf(s).pc = "returned"
         /\ CallOf(s).found = << >>

(***************************************************************************)
(* db.py: get_or_create_fight                                              *)
(***************************************************************************)

\* lines 79-86: select fight_id, weight_class where event_id, fighter_a and
\* fighter_b are equal to the arguments
SelectFight(event_id, fa, fb) ==
  FilterIdx(fights, [i \in 1..Len(fights) |->
                       /\ fights[i].event_id = event_id
                       /\ fights[i].fighter_a = fa
                       /\ fights[i].fighter_b = fb], 1)

\* lines 89: update({"weight_class": weight_class}).eq("fight_id", fight_id)
UpdatedFights(table, fight_id, weight_class) ==
  [i \in 1..Len(table) |->
     IF table[i].fight_id = fight_id THEN [table[i] EXCEPT !.weight_class = weight_class]
     ELSE table[i]]

\* lines 92-95: insert event_id, fighter_a, fighter_b, and weight_class when given
InsertedFight(table, event_id, fighter_a, fighter_b, weight_class) ==
  Append(table, [fight_id |-> Len(table) + 1, event_id |-> event_id,
                 fighter_a |-> fighter_a, fighter_b |-> fighter_b,
                 weight_class |-> IF Truthy(weight_class) THEN weight_class ELSE NULL])

(***************************************************************************)
(* SpecFights: get_or_create_fight called by two ingestion sessions, one   *)
(* store request at a time                                                 *)
(***************************************************************************)

\* the largest number of get_or_create_fight calls
MaxFightCalls == 3

\* the fights of the articles the sessions save, all of event 1
FightInputs ==
  { [event_id |-> 1, fighter_a |-> JonJones, fighter_b |-> TomAspinall, weight_class |-> NULL],
    [event_id |-> 1, fighter_a |-> TomAspinall, fighter_b |-> JonJones,
     weight_class |-> "Heavyweight"],
    [event_id |-> 1, fighter_a |-> MaxHolloway, fighter_b |-> IliaTopuria,
     weight_class |-> "Featherweight"] }

\* lines 87-90: what the call does with the rows of one select; next is the
\* step to take when there are none
FightCallAfterSelect(input, found, next) ==
  IF found = << >>
    THEN [call |-> "get_or_create_fight", pc |-> next, input |-> input,
          found |-> FALSE, ret |-> 0]
  ELSE IF Truthy(input.weight_class) /\ ~Truthy(found[1].weight_class)
    THEN [call |-> "get_or_create_fight", pc |-> "update", input |-> input,
          found |-> TRUE, ret |-> found[1].fight_id]
  ELSE [call |-> "get_or_create_fight", pc |-> "returned", input |-> input,
        found |-> TRUE, ret |-> found[1].fight_id]

\* the call and the select for the fighters in the order given
BeginGetOrCreateFight(s) ==
  /\ Free(s)
  /\ result.n_saves < MaxFightCalls
  /\ \E input \in FightInputs :
       result' = [SetCall(s, FightCallAfterSelect(input,
                               SelectFight(input.event_id, input.fighter_a, input.fighter_b),
                               "select_swapped"))
                    EXCEPT !.n_saves = @ + 1]
  /\ UNCHANGED << events, fights, analyst_picks, pick_tags, hash_seed >>
  /\ UNCHANGED pages

\* A variant of the second select below: the given order once more.
SwappedNot(input) == SelectFight(input.event_id, input.fighter_a, input.fighter_b)

\* the second pass of the loop of line 78: (fighter_b, fighter_a)
Swapped(input) == SelectFight(input.event_id, input.fighter_b, input.fighter_a)

SelectSwappedFight(s) ==
  /\ CallOf(s).call = "get_or_create_fight" /\ CallOf(s).pc = "select_swapped"
  /\ result' = SetCall(s, FightCallAfterSelect(CallOf(s).input, Swapped(CallOf(s).input),
                                               "insert"))
  /\ UNCHANGED << events, fights, analyst_picks, pick_tags, hash_seed >>
  /\ UNCHANGED pages

UpdateFoundFight(s) ==
  /\ CallOf(s).call = "get_or_create_fight" /\ CallOf(s).pc = "update"
  /\ fights' = UpdatedFights(fights, CallOf(s).ret, CallOf(s).input.weight_class)
  /\ result' = SetCall(s, [CallOf(s) EXCEPT !.pc = "returned"])
  /\ UNCHANGED << events, analyst_picks, pick_tags, hash_seed >>
  /\ UNCHANGED pages

InsertNewFight(s) ==
  /\ CallOf(s).call = "get_or_create_fight" /\ CallOf(s).pc = "insert"
  /\ fights' = InsertedFight(fights, CallOf(s).input.event_id, CallOf(s).input.fighter_a,
                             CallOf(s).input.fighter_b, CallOf(s).input.weight_class)
  /\ result' = SetCall(s, [CallOf(s) EXCEPT !.pc = "returned", !.ret = Len(fights) + 1])
  /\ UNCHANGED << events, analyst_picks, pick_tags, hash_seed >>
  /\ UNCHANGED pages

InitFights ==
  /\ events = << [event_id |-> 1, name |-> Ufc309, date |-> 20241116, location |-> NULL] >>
  /\ fights \in { << >>,
                  << [fight_id |-> 1, event_id |-> 1, fighter_a |-> JonJones,
                      fighter_b |-> TomAspinall, weight_class |-> NULL] >> }
  /\ analyst_picks = << >>
  /\ pick_tags = << >>
  /\ hash_seed = 0
  /\ PagesIdle
  /\ result = AliasCalls([s \in AliasSessions |-> IdleCall], { }, 0)

NextFights ==
  \E s \in AliasSessions :
    \/ BeginGetOrCreateFight(s)
    \/ SelectSwappedFight(s)
    \/ UpdateFoundFight(s)
    \/ InsertNewFight(s)

SpecFights == InitFights /\ [][NextFights]_vars

(***************************************************************************)
(* Properties of get_or_create_fight                                       *)
(***************************************************************************)

SamePair(f, g) ==
  /\ f.event_id = g.event_id
  /\ { f.fighter_a, f.fighter_b } = { g.fighter_a, g.fighter_b }

\* C26: whatever the order the fighters are given in and whatever the
\* interleaving of the sessions' get_or_create_fight calls, no two fight rows of
\* an event have the same unordered pair of fighters, and a returned call for a
\* pair the table held when the call began returned a row of that pair.
C26_OneFightPerUnorderedPair ==
  /\ \A i, j \in 1..Len(fights) : SamePair(fights[i], fights[j]) => i = j
  /\ \A s \in AliasSessions :
       CallOf(s).call = "get_or_create_fight" /\ CallOf(s).pc = "returned"
         => /\ CallOf(s).ret \in 1..Len(fights)
            /\ SamePair(fights[CallOf(s).ret], CallOf(s).input)

\* the two sessions were given the same fight in the two orders, neither found
\* it, and the table holds it twice
C26_SameFightTwice ==
  /\ Len(fights) = 2
  /\ fights[1].fighter_a = fights[2].fighter_b
  /\ fights[1].fighter_b = fights[2].fighter_a
  /\ fights[1].fighter_a # fights[1].fighter_b
  /\ \A s \in AliasSessions :
       CallOf(s).call = "get_or_create_fight" /\ CallOf(s).pc = "returned" /\ ~CallOf(s).found

(***************************************************************************)
(* pages/1_url_ingestion.py: the stages of the page and "Save all picks"   *)
(***************************************************************************)

\* st.session_state: a key is in the session when it is in the domain
Has(key) == key \in DOMAIN session_state

\* st.session_state[key] = value
Put(state, key, value) == (key :> value) @@ state

\* the keys of the session that start with "ing_"
IngKeys(state) ==
  DOMAIN state \cap { "ing_stage", "ing_url", "ing_article_text", "ing_extracted",
                      "ing_saved_count", "ing_saved_event" }

\* A variant of reset_session below: only the stage is removed.
reset_sessionStageOnly(state) == [k \in DOMAIN state \ { "ing_stage" } |-> state[k]]

\* reset_session(): every key that starts with "ing_" is deleted
reset_session(state) == [k \in DOMAIN state \ IngKeys(state) |-> state[k]]

\* lines 177-178, run at the top of every run of the page
WithStage(state) ==
  IF "ing_stage" \in DOMAIN state THEN state ELSE Put(state, "ing_stage", "input")

\* the page after a run: the script has run from the top
PageRun(state) == WithStage(Put(state, "page", "1_url_ingestion"))

\* the articles, by what scraping or pasting gives, and what the extraction
\* returns for each: analysts with their picks as the editor leaves them
ArticleTexts == { "article of Luke Thomas", "staff picks" }

ExtractedOf(text) ==
  IF text = "article of Luke Thomas"
    THEN [article_type |-> "single",
          analysts |-> << [analyst_name |-> "Luke Thomas",
                           picks |-> << [fighter_a |-> JonJones, fighter_b |-> TomAspinall,
                                         weight_class |-> "Heavyweight",
                                         picked_fighter |-> PickJones, method |-> "KO/TKO",
                                         reasoning |-> "more power", tags |-> << "power" >>],
                                        [fighter_a |-> MaxHolloway, fighter_b |-> IliaTopuria,
                                         weight_class |-> NULL,
                                         picked_fighter |-> PickTopuria, method |-> "",
                                         reasoning |-> "", tags |-> << >>] >>] >>]
    ELSE [article_type |-> "staff",
          analysts |-> << [analyst_name |-> "Brian Campbell",
                           picks |-> << [fighter_a |-> TomAspinall, fighter_b |-> JonJones,
                                         weight_class |-> NULL,
                                         picked_fighter |-> PickAspinall, method |-> "Decision",
                                         reasoning |-> "", tags |-> << >>] >>],
                          [analyst_name |-> "Luke Thomas",
                           picks |-> << >>] >>]

\* the picks of analysts_data in the order the save loop walks them
RECURSIVE PicksToSave(_)
PicksToSave(analysts) ==
  IF analysts = << >> THEN << >>
  ELSE [i \in 1..Len(analysts[1].picks) |->
          [analyst_name |-> analysts[1].analyst_name, pick |-> analysts[1].picks[i]]]
       \o PicksToSave(Tail(analysts))

\* the tables as one value, with the counter and the outcome of the handler
StoreNow ==
  [events |-> events, fights |-> fights, analyst_picks |-> analyst_picks,
   pick_tags |-> pick_tags, saved_count |-> 0, raised |-> FALSE, event_id |-> 0]

\* get_or_create_event as one call of one session: lines 432-436
EventGotOrCreated(st, name, date, location, found) ==
  IF found # << >>
    THEN [st EXCEPT !.events = UpdatedEvents(st.events, found[1].event_id,
                                             EventUpdates(found[1], date, location)),
                    !.event_id = found[1].event_id]
  ELSE [st EXCEPT !.events = InsertedEvent(st.events, name, date, location),
                  !.event_id = Len(st.events) + 1]

\* the rows of a fights table with the event and the fighters in the order given
FightsIn(table, event_id, fa, fb) ==
  FilterIdx(table, [i \in 1..Len(table) |->
                      /\ table[i].event_id = event_id
                      /\ table[i].fighter_a = fa
                      /\ table[i].fighter_b = fb], 1)

\* get_or_create_fight as one call of one session, given the rows found in one
\* of the two orders: the table after it and the fight_id
FightGotOrCreated(table, event_id, p, found) ==
  IF found # << >>
    THEN [fights |-> IF Truthy(p.weight_class) /\ ~Truthy(found[1].weight_class)
                       THEN UpdatedFights(table, found[1].fight_id, p.weight_class)
                       ELSE table,
          fight_id |-> found[1].fight_id]
  ELSE [fights |-> InsertedFight(table, event_id, p.fighter_a, p.fighter_b, p.weight_class),
        fight_id |-> Len(table) + 1]

\* lines 455-464: pick_row
pick_row(fight_id, analyst_name, p) ==
  PickRow(fight_id, analyst_name,
          IF p.picked_fighter = << >> THEN PickNone ELSE p.picked_fighter,
          IF p.method = "" THEN NULL ELSE p.method,
          IF p.reasoning = "" THEN NULL ELSE p.reasoning,
          p.tags)

\* lines 465-467: save_analyst_pick, save_pick_tags, saved_count += 1; the
\* request named by stop raises
PickSaved(st, row, stop) ==
  IF stop = "pick" THEN [st EXCEPT !.raised = TRUE]
  ELSE IF stop = "tags" /\ row.tags # << >>
    THEN [st EXCEPT !.analyst_picks = InsertPick(st.analyst_picks, row), !.raised = TRUE]
  ELSE [st EXCEPT !.analyst_picks = InsertPick(st.analyst_picks, row),
                  !.pick_tags = InsertTags(st.pick_tags, Len(st.analyst_picks) + 1, row.tags),
                  !.saved_count = @ + 1]

\* lines 451-467 for one pick, the fight got or created
FightSaved(st, analyst_name, p, got, stop) ==
  IF stop = "fight" THEN [st EXCEPT !.raised = TRUE]
  ELSE PickSaved([st EXCEPT !.fights = got.fights],
                 pick_row(got.fight_id, analyst_name, p), stop)

\* lines 438-467: the loop over the picks; request stop of pick fail_at raises
RECURSIVE SaveLoop(_, _, _, _, _)
SaveLoop(st, rows, i, fail_at, stop) ==
  IF i > Len(rows) \/ st.raised THEN st
  ELSE SaveLoop(
         FightSaved(st, rows[i].analyst_name, rows[i].pick,
           FightGotOrCreated(st.fights, st.event_id, rows[i].pick,
             IF FightsIn(st.fights, st.event_id, rows[i].pick.fighter_a,
                         rows[i].pick.fighter_b) # << >>
               THEN FightsIn(st.fights, st.event_id, rows[i].pick.fighter_a,
                             rows[i].pick.fighter_b)
               ELSE FightsIn(st.fights, st.event_id, rows[i].pick.fighter_b,
                             rows[i].pick.fighter_a)),
           IF i = fail_at THEN stop ELSE "none"),
         rows, i + 1, fail_at, stop)

\* lines 431-467: the body of the try; fail_at = 0 with stop = "event" is an
\* exception of get_or_create_event
SaveAllPicksBody(event_name, event_date, event_location, rows, fail_at, stop) ==
  IF fail_at = 0 /\ stop = "event" THEN [StoreNow EXCEPT !.raised = TRUE]
  ELSE SaveLoop(EventGotOrCreated(StoreNow, event_name, event_date, event_location,
                                  SelectEvent(event_name)),
                rows, 1, fail_at, stop)

\* A variant of the end of the handler below: the page moves on whether or not
\* the save raised.
SessionAfterSaveAlways(state, saved, event_name) ==
  Put(Put(Put(state, "ing_saved_count", saved.saved_count),
          "ing_saved_event", event_name), "ing_stage", "done")

\* lines 469-475: the session after the try
SessionAfterSave(state, saved, event_name) ==
  IF saved.raised THEN state
  ELSE Put(Put(Put(state, "ing_saved_count", saved.saved_count),
               "ing_saved_event", event_name), "ing_stage", "done")

(***************************************************************************)
(* SpecIngest: one editor working through the ingestion page               *)
(***************************************************************************)

\* "Save all picks" is not clicked once the table holds this many picks
MaxSavedRows == 3

InStageOf(stage) == Has("ing_stage") /\ session_state["ing_stage"] = stage

\* the page is opened (or run again without a click)
OpenIngestionPage ==
  /\ session_state' = PageRun(session_state)
  /\ result' = [op |-> "open", raised |-> FALSE]
  /\ UNCHANGED << events, fights, analyst_picks, pick_tags, hash_seed >>
  /\ UNCHANGED << fighter_aliases, alias_cache >>

\* lines 188-200: "Scrape"; scraped is the text, or "" when the site gave none
Scrape ==
  /\ InStageOf("input")
  /\ \E scraped \in ArticleTexts \cup { "" } :
       session_state' =
         PageRun(IF scraped # ""
                   THEN Put(Put(Put(session_state, "ing_url", "https://example.org/picks"),
                                "ing_article_text", scraped), "ing_stage", "text_ready")
                   ELSE Put(Put(Put(session_state, "ing_url", "https://example.org/picks"),
                                "ing_article_text", ""), "ing_stage", "paste_fallback"))
  /\ result' = [op |-> "scrape", raised |-> FALSE]
  /\ UNCHANGED << events, fights, analyst_picks, pick_tags, hash_seed >>
  /\ UNCHANGED << fighter_aliases, alias_cache >>

\* lines 210-214: "Use this text"
UseThisText ==
  /\ InStageOf("paste_fallback")
  /\ \E pasted \in ArticleTexts :
       session_state' = PageRun(Put(Put(session_state, "ing_article_text", pasted),
                                    "ing_stage", "text_ready"))
  /\ result' = [op |-> "use_this_text", raised |-> FALSE]
  /\ UNCHANGED << events, fights, analyst_picks, pick_tags, hash_seed >>
  /\ UNCHANGED << fighter_aliases, alias_cache >>

\* lines 228-236: "Extract picks with AI"; call_claude returns or raises
ExtractPicks ==
  /\ InStageOf("text_ready")
  /\ \E raises \in BOOLEAN :
       /\ session_state' =
            IF raises THEN session_state
            ELSE PageRun(Put(Put(session_state, "ing_extracted",
                                 ExtractedOf(session_state["ing_article_text"])),
                             "ing_stage", "review_picks"))
       /\ result' = [op |-> "extract", raised |-> raises]
  /\ UNCHANGED << events, fights, analyst_picks, pick_tags, hash_seed >>
  /\ UNCHANGED << fighter_aliases, alias_cache >>

\* what the handler did: the tables it left, and its outcome
SaveDone(saved, event_name, rows) ==
  /\ events' = saved.events
  /\ fights' = saved.fights
  /\ analyst_picks' = saved.analyst_picks
  /\ pick_tags' = saved.pick_tags
  /\ session_state' = PageRun(SessionAfterSave(session_state, saved, event_name))
  /\ result' = [op |-> "save_all_picks", raised |-> saved.raised,
                reviewed |-> Len(rows), saved_count |-> saved.saved_count]

\* lines 429-475: "Save all picks"
SaveAllPicks ==
  /\ InStageOf("review_picks")
  /\ Len(analyst_picks) < MaxSavedRows
  /\ \E event_name \in { Ufc309, Lower(Ufc309) },
        fail_at \in 0..2, stop \in { "none", "event", "fight", "pick", "tags" } :
       /\ fail_at = 0 <=> stop \in { "none", "event" }
       /\ fail_at <= Len(PicksToSave(session_state["ing_extracted"].analysts))
       /\ SaveDone(SaveAllPicksBody(event_name, NoDate, "",
                                    PicksToSave(session_state["ing_extracted"].analysts),
                                    fail_at, stop),
                   event_name, PicksToSave(session_state["ing_extracted"].analysts))
  /\ UNCHANGED << hash_seed, fighter_aliases, alias_cache >>

\* lines 180-183: "Start over"
StartOver ==
  /\ Has("ing_stage") /\ session_state["ing_stage"] # "input"
  /\ session_state' = PageRun(reset_session(session_state))
  /\ result' = [op |-> "start_over", raised |-> FALSE]
  /\ UNCHANGED << events, fights, analyst_picks, pick_tags, hash_seed >>
  /\ UNCHANGED << fighter_aliases, alias_cache >>

\* lines 485-487: "Ingest another article"
IngestAnother ==
  /\ InStageOf("done")
  /\ session_state' = PageRun(reset_session(session_state))
  /\ result' = [op |-> "ingest_another", raised |-> FALSE]
  /\ UNCHANGED << events, fights, analyst_picks, pick_tags, hash_seed >>
  /\ UNCHANGED << fighter_aliases, alias_cache >>

InitIngest ==
  /\ events = << >>
  /\ fights = << >>
  /\ analyst_picks = << >>
  /\ pick_tags = << >>
  /\ hash_seed = 0
  /\ PagesIdle
  /\ result = NoResult

NextIngest ==
  \/ OpenIngestionPage
  \/ Scrape
  \/ UseThisText
  \/ ExtractPicks
  \/ SaveAllPicks
  \/ StartOver
  \/ IngestAnother

SpecIngest == InitIngest /\ [][NextIngest]_vars

(***************************************************************************)
(* Properties of the ingestion page                                        *)
(***************************************************************************)

\* the picks of one analyst on one fight
PicksOfAnalyst(fight_id, analyst_name) ==
  { i \in 1..Len(analyst_picks) :
      /\ analyst_picks[i].fight_id = fight_id
      /\ analyst_picks[i].analyst_name = analyst_name }

\* C27: after any sequence of "Save all picks" (the same article saved twice,
\* or saved again after a save that raised midway), a fight holds at most one
\* analyst_picks row per analyst.
C27_OnePickPerAnalystAndFight ==
  \A i, j \in 1..Len(analyst_picks) :
    /\ analyst_picks[i].fight_id = analyst_picks[j].fight_id
    /\ analyst_picks[i].analyst_name = analyst_picks[j].analyst_name
    => i = j

\* the save raised at the second pick, the page stayed on the review, and the
\* second click saved the first pick again
C27_FirstPickSavedTwice ==
  /\ result # NoResult /\ result.op = "save_all_picks" /\ ~result.raised
  /\ result.saved_count = 2
  /\ Len(analyst_picks) = 3
  /\ Len(fights) = 2
  /\ Cardinality(PicksOfAnalyst(1, "Luke Thomas")) = 2
  /\ Cardinality(PicksOfAnalyst(2, "Luke Thomas")) = 1


(***************************************************************************)
(* db.py get_picks_for_event: the flat rows of the export page             *)
(***************************************************************************)

\* a fight without bout_order: None and 0 are both falsy in "bout_order or 999"
NoBoutOrder == 0

\* line 204: the sort key of a fight without bout_order
BoutOrderLast == 999

\* Python's order of the analyst names (str comparison by code point)
AnalystsInOrder == << "Brian Campbell", "Chael Sonnen", "Din Thomas", "Luke Thomas" >>

NameOrder(name) == CHOOSE i \in 1..Len(AnalystsInOrder) : AnalystsInOrder[i] = name

\* tuple comparison of two keys (bout_order, analyst)
KeyLess(x, y) ==
  \/ x[1] < y[1]
  \/ x[1] = y[1] /\ NameOrder(x[2]) < NameOrder(y[2])

\* how many elements come before seq[i] once seq is sorted by keys, ascending
\* and stable
RankAsc(keys, i) ==
  Cardinality({ j \in 1..Len(keys) : KeyLess(keys[j], keys[i]) })
  + Cardinality({ j \in 1..(i - 1) : keys[j] = keys[i] })

\* list.sort(key=...): ascending and stable
SortAsc(seq, keys) ==
  [r \in 1..Len(seq) |-> seq[CHOOSE i \in 1..Len(seq) : RankAsc(keys, i) = r - 1]]

\* lines 133-139: the fights of the event
FightsOfEvent(event_id) ==
  FilterIdx(fights, [i \in 1..Len(fights) |-> fights[i].event_id = event_id], 1)

\* lines 145-152: the event row, {} when there is none
EventOrEmpty(event_id) ==
  IF \E i \in 1..Len(events) : events[i].event_id = event_id
    THEN events[CHOOSE i \in 1..Len(events) : events[i].event_id = event_id]
  ELSE [name |-> << >>, date |-> NoDate, location |-> NULL]

\* lines 155-162: the picks of those fights
PicksOfFights(fs) ==
  FilterIdx(analyst_picks,
            [i \in 1..Len(analyst_picks) |->
               \E k \in 1..Len(fs) : fs[k].fight_id = analyst_picks[i].fight_id], 1)

\* lines 165-175: tags_by_pick.get(pick_id, [])
TagsByPick(pick_id) ==
  LET mine == FilterIdx(pick_tags, [i \in 1..Len(pick_tags) |-> pick_tags[i].pick_id = pick_id], 1)
  IN  [i \in 1..Len(mine) |-> mine[i].tag]

\* fights.get(fight_id, {}) for a fight_id of the dict
FightById(fs, fight_id) == fs[CHOOSE k \in 1..Len(fs) : fs[k].fight_id = fight_id]

\* lines 182-185: the parts of context that are joined with " | "
ContextParts(pick, tags) ==
  (IF Truthy(pick.reasoning_notes) THEN << Txt(pick.reasoning_notes) >> ELSE << >>)
  \o (IF tags # << >> THEN << Joined(tags) >> ELSE << >>)

\* lines 187-200: one flat row (platform and confidence are not columns of
\* the modelled table)
FlatRow(event, fight, pick) ==
  [date |-> event.date,
   analyst |-> pick.analyst_name,
   event |-> event.name,
   location |-> IF Truthy(event.location) THEN event.location ELSE "",
   fight |-> fight.fighter_a \o VsText \o fight.fighter_b,
   weight_class |-> IF Truthy(fight.weight_class) THEN fight.weight_class ELSE "",
   pick |-> pick.picked_fighter,
   context |-> ContextParts(pick, TagsByPick(pick.pick_id)),
   method |-> IF Truthy(pick.method_prediction) THEN pick.method_prediction ELSE ""]

\* A variant of the sort key below: the bout_order of the fight of the pick
\* itself.
SortKeyOwnFight(fs, picks, i) ==
  << IF FightById(fs, picks[i].fight_id).bout_order # NoBoutOrder
       THEN FightById(fs, picks[i].fight_id).bout_order ELSE BoutOrderLast,
     picks[i].analyst_name >>

\* lines 203-206: the key of the row of picks[i]: the bout_order of the fight
\* of the first pick in picks with the analyst of the row, then the analyst
SortKey(fs, picks, i) ==
  LET first == picks[CHOOSE k \in 1..Len(picks) :
                       /\ picks[k].analyst_name = picks[i].analyst_name
                       /\ \A j \in 1..(k - 1) : picks[j].analyst_name # picks[i].analyst_name]
  IN  << IF FightById(fs, first.fight_id).bout_order # NoBoutOrder
           THEN FightById(fs, first.fight_id).bout_order ELSE BoutOrderLast,
         picks[i].analyst_name >>

\* lines 177-208: the rows assembled and sorted
RowsOfPicks(event, fs, picks) ==
  SortAsc([i \in 1..Len(picks) |-> FlatRow(event, FightById(fs, picks[i].fight_id), picks[i])],
          [i \in 1..Len(picks) |-> SortKey(fs, picks, i)])

get_picks_for_event(event_id) ==
  IF FightsOfEvent(event_id) = << >> THEN << >>
  ELSE RowsOfPicks(EventOrEmpty(event_id), FightsOfEvent(event_id),
                   PicksOfFights(FightsOfEvent(event_id)))

(***************************************************************************)
(* SpecExport: picks are saved on the fights of a card and the export page *)
(* reads the rows of an event                                              *)
(***************************************************************************)

\* picks saved before the export
MaxExportPicks == 3

\* the values of bout_order on the card (NoBoutOrder: not set)
BoutOrders == { NoBoutOrder, 1, 2 }

ExportAnalysts == { "Luke Thomas", "Brian Campbell" }

\* the card: three fights of event 1 and a fight of another event
ExportCard(b1, b2, b3) ==
  << [fight_id |-> 1, event_id |-> 1, fighter_a |-> JonJones, fighter_b |-> TomAspinall,
      weight_class |-> "Heavyweight", bout_order |-> b1],
     [fight_id |-> 2, event_id |-> 1, fighter_a |-> MaxHolloway, fighter_b |-> IliaTopuria,
      weight_class |-> NULL, bout_order |-> b2],
     [fight_id |-> 3, event_id |-> 1, fighter_a |-> AndersonSilva, fighter_b |-> ThiagoSilva,
      weight_class |-> NULL, bout_order |-> b3],
     [fight_id |-> 4, event_id |-> 2, fighter_a |-> TomAspinall, fighter_b |-> JonJones,
      weight_class |-> NULL, bout_order |-> 1] >>

\* save_analyst_pick and save_pick_tags of one pick
SaveExportPick ==
  /\ result = NoResult
  /\ Len(analyst_picks) < MaxExportPicks
  /\ \E f \in 1..Len(fights), analyst \in ExportAnalysts :
       /\ analyst_picks' = InsertPick(analyst_picks,
                                      PickRow(f, analyst, fights[f].fighter_a, "KO/TKO",
                                              IF f = 1 THEN "more power" ELSE NULL,
                                              IF f = 2 THEN << >> ELSE << "power" >>))
       /\ pick_tags' = InsertTags(pick_tags, Len(analyst_picks) + 1,
                                  IF f = 2 THEN << >> ELSE << "power" >>)
  /\ UNCHANGED << events, fights, hash_seed, result >>
  /\ UNCHANGED pages

\* pages/2_export.py: the rows of the selected event
CallGetPicksForEvent ==
  /\ result = NoResult
  /\ \E event_id \in 1..3 :
       result' = [op |-> "get_picks_for_event", event_id |-> event_id,
                  rows |-> get_picks_for_event(event_id)]
  /\ UNCHANGED << events, fights, analyst_picks, pick_tags, hash_seed >>
  /\ UNCHANGED pages

InitExport ==
  /\ events = InsertedEvent(InsertedEvent(<< >>, Ufc309, 20241116, "New York"),
                            Lower(Ufc309), NoDate, "")
  /\ \E b1 \in BoutOrders, b2 \in BoutOrders, b3 \in BoutOrders : fights = ExportCard(b1, b2, b3)
  /\ analyst_picks = << >>
  /\ pick_tags = << >>
  /\ hash_seed = 0
  /\ PagesIdle
  /\ result = NoResult

NextExport ==
  \/ SaveExportPick
  \/ CallGetPicksForEvent
  \/ ReplyConsumed

SpecExport == InitExport /\ [][NextExport]_vars

(***************************************************************************)
(* Properties of get_picks_for_event                                       *)
(***************************************************************************)

IsExport == result # NoResult /\ result.op = "get_picks_for_event"

\* the bout_order the order is about, of the fight a returned row names
OwnBoutOrder(event_id, row) ==
  LET f == fights[CHOOSE k \in 1..Len(fights) :
                    /\ fights[k].event_id = event_id
                    /\ fights[k].fighter_a \o VsText \o fights[k].fighter_b = row.fight]
  IN  IF f.bout_order # NoBoutOrder THEN f.bout_order ELSE BoutOrderLast

\* C28: get_picks_for_event returns one row per pick of the event, ordered by
\* the bout_order of the row's own fight (fights without bout_order last) and
\* then by analyst name: of two consecutive rows the second never has a
\* smaller own-fight bout_order, and with equal bout_order never a smaller name.
C28_RowsOrderedByOwnFight ==
  IsExport =>
    /\ Len(result.rows) = Len(PicksOfFights(FightsOfEvent(result.event_id)))
    /\ \A r \in 1..(Len(result.rows) - 1) :
         ~KeyLess(<< OwnBoutOrder(result.event_id, result.rows[r + 1]), result.rows[r + 1].analyst >>,
                  << OwnBoutOrder(result.event_id, result.rows[r]), result.rows[r].analyst >>)

\* an analyst with picks on two fights of the card, the later bout saved first
C28_AnalystOnSeveralFights ==
  /\ IsExport /\ result.event_id = 1
  /\ Len(result.rows) = 2
  /\ result.rows[1].analyst = result.rows[2].analyst
  /\ OwnBoutOrder(1, result.rows[2]) < OwnBoutOrder(1, result.rows[1])


(***************************************************************************)
(* pages/6_chat.py: the chat session.  Every run of the page script is     *)
(* taken from its start to its end.                                        *)
(***************************************************************************)

\* lines 57-64: the three keys are set when they are missing
WithChatKeys(state) ==
  state @@ [chat_messages |-> << >>, chat_total_cost |-> 0, chat_query_count |-> 0]

\* lines 92-95: "Clear chat history"
ChatCleared(state) ==
  Put(Put(Put(state, "chat_messages", << >>), "chat_total_cost", 0), "chat_query_count", 0)

\* line 114: the user message
UserMessage(prompt) == [role |-> "user", content |-> prompt]

\* lines 140-142: the assistant message
AssistantMessage(answer, cost) == [role |-> "assistant", content |-> answer, cost |-> cost]

\* line 125: result.get("metadata", {}).get("cost_estimate")
CostEstimateOf(reply) ==
  IF "metadata" \in DOMAIN reply /\ "cost_estimate" \in DOMAIN reply.metadata
    THEN reply.metadata.cost_estimate
  ELSE NoneRet

\* A variant of the try below: a question that raised is counted as well.
SessionAfterAnswerCountsAll(state, reply) ==
  IF reply.raised THEN Put(state, "chat_query_count", state["chat_query_count"] + 1)
  ELSE Put(IF CostEstimateOf(reply) # NoneRet
             THEN Put(state, "chat_total_cost",
                      state["chat_total_cost"] + CostEstimateOf(reply).cost_usd)
             ELSE state,
           "chat_query_count", state["chat_query_count"] + 1)

\* lines 122-133: the try: cost added when there is an estimate, the query
\* counted; nothing when answer_question raised
SessionAfterAnswer(state, reply) ==
  IF reply.raised THEN state
  ELSE Put(IF CostEstimateOf(reply) # NoneRet
             THEN Put(state, "chat_total_cost",
                      state["chat_total_cost"] + CostEstimateOf(reply).cost_usd)
             ELSE state,
           "chat_query_count", state["chat_query_count"] + 1)

\* lines 124-138: answer and cost of the assistant message
AnswerMessage(reply) ==
  IF reply.raised THEN AssistantMessage(<< Lit("Error: "), Txt(reply.exc) >>, NoneRet)
  ELSE AssistantMessage(reply.answer, CostEstimateOf(reply))

\* lines 112-142: the session after a submitted question
SessionAfterQuestion(state, prompt, reply) ==
  Put(SessionAfterAnswer(Put(state, "chat_messages",
                             Append(state["chat_messages"], UserMessage(prompt))), reply),
      "chat_messages",
      state["chat_messages"] \o << UserMessage(prompt), AnswerMessage(reply) >>)

(***************************************************************************)
(* SpecChat: one user of the chat page                                     *)
(***************************************************************************)

\* questions submitted between two clears
MaxQuestions == 3

ChatPrompts == { "Who will win Jones vs Aspinall?" }

\* what answer_question does for a question: it raises, it returns an answer
\* without cost estimate, or an answer with the estimate of the usage
ChatReplies ==
  { [raised |-> TRUE, exc |-> "Connection error."] }
  \cup { [raised |-> FALSE, answer |-> << Txt("no fight found") >>,
          metadata |-> [query_type |-> "fight_not_found"]] }
  \cup { [raised |-> FALSE, answer |-> << Txt("the analysts favour Jones") >>,
          metadata |-> [query_type |-> "fight_analysis",
                        cost_estimate |-> _estimate_cost(usage)]] :
           usage \in { [input_tokens |-> 0, output_tokens |-> 1],
                       [input_tokens |-> 5, output_tokens |-> 0],
                       [input_tokens |-> 20, output_tokens |-> 3] } }

\* the replies of answer_question since the last clear, kept for the properties
Asked == IF result = NoResult THEN << >> ELSE result.asked

\* the page is opened
OpenChatPage ==
  /\ session_state' = WithChatKeys(Put(session_state, "page", "6_chat"))
  /\ result' = [op |-> "chat", asked |-> Asked]
  /\ UNCHANGED << events, fights, analyst_picks, pick_tags, hash_seed >>
  /\ UNCHANGED << fighter_aliases, alias_cache >>

\* lines 112-142: a question is submitted
SubmitQuestion ==
  /\ Has("chat_messages")
  /\ Len(Asked) < MaxQuestions
  /\ \E prompt \in ChatPrompts, reply \in ChatReplies :
       /\ session_state' = WithChatKeys(SessionAfterQuestion(session_state, prompt, reply))
       /\ result' = [op |-> "chat", asked |-> Append(Asked, reply)]
  /\ UNCHANGED << events, fights, analyst_picks, pick_tags, hash_seed >>
  /\ UNCHANGED << fighter_aliases, alias_cache >>

\* lines 92-96: "Clear chat history" and the rerun
ClearChatHistory ==
  /\ Has("chat_messages")
  /\ session_state' = WithChatKeys(ChatCleared(session_state))
  /\ result' = [op |-> "chat", asked |-> << >>]
  /\ UNCHANGED << events, fights, analyst_picks, pick_tags, hash_seed >>
  /\ UNCHANGED << fighter_aliases, alias_cache >>

NextChat ==
  \/ OpenChatPage
  \/ SubmitQuestion
  \/ ClearChatHistory

SpecChat == InitIngest /\ [][NextChat]_vars

(***************************************************************************)
(* Properties of the chat session                                          *)
(***************************************************************************)

RECURSIVE CostSum(_)
CostSum(replies) ==
  IF replies = << >> THEN 0
  ELSE CostSum(SubSeq(replies, 1, Len(replies) - 1))
       + (IF ~replies[Len(replies)].raised /\ CostEstimateOf(replies[Len(replies)]) # NoneRet
            THEN CostEstimateOf(replies[Len(replies)]).cost_usd ELSE 0)

IngStages == { "input", "paste_fallback", "text_ready", "review_picks", "done" }

\* the steps of the stage that are no reset
StageSteps ==
  { << "input", "text_ready" >>, << "input", "paste_fallback" >>,
    << "paste_fallback", "text_ready" >>, << "text_ready", "review_picks" >>,
    << "review_picks", "done" >> }

\* the stage of a session, "no stage" before the page has run
StageOf(state) == IF "ing_stage" \in DOMAIN state THEN state["ing_stage"] ELSE "no stage"

\* C30: ing_stage is always one of the five stages and moves only along
\* input -> text_ready | paste_fallback, paste_fallback -> text_ready,
\* text_ready -> review_picks (after an extraction that returned) and
\* review_picks -> done; done is entered only by a save that raised nowhere
\* and saved every reviewed pick, with ing_saved_count the number of
\* analyst_picks rows that save inserted; a handler that raised leaves the
\* stage as it was; a reset removes every ing_ key and the stage is input.
C30_StageMachine ==
  [][/\ StageOf(session_state') \in IngStages
     /\ StageOf(session_state) \in IngStages /\ StageOf(session_state') # StageOf(session_state)
          => \/ << StageOf(session_state), StageOf(session_state') >> \in StageSteps
             \/ /\ result'.op \in { "start_over", "ingest_another" }
                /\ StageOf(session_state') = "input"
     /\ StageOf(session_state) = "text_ready" /\ StageOf(session_state') = "review_picks"
          => result'.op = "extract" /\ ~result'.raised
     /\ StageOf(session_state) # "done" /\ StageOf(session_state') = "done"
          => /\ result'.op = "save_all_picks" /\ ~result'.raised
             /\ session_state'["ing_saved_count"] = result'.reviewed
             /\ session_state'["ing_saved_count"] = Len(analyst_picks') - Len(analyst_picks)
     /\ result'.raised => StageOf(session_state') = StageOf(session_state)
     /\ result'.op \in { "start_over", "ingest_another" }
          => IngKeys(session_state') = { "ing_stage" } /\ StageOf(session_state') = "input"
    ]_vars

\* a save raised after the first pick was written and the page stayed on the
\* review; the next save went through and the page is done with two picks
C30_DoneAfterSaveThatRaised ==
  /\ InStageOf("done")
  /\ result.op = "save_all_picks" /\ ~result.raised
  /\ session_state["ing_saved_count"] = 2
  /\ session_state["ing_saved_event"] = Ufc309
  /\ Len(analyst_picks) = 3
  /\ Len(pick_tags) = 2

=============================================================================
